---------------------------- MODULE Spec2Model ----------------------------
(***************************************************************************)
(* A model of the cloud-run-mcp server: the tool filter and its catalogs,  *)
(* the command-line parser, the server start-up paths (stdio and HTTP),    *)
(* the exhaustive log fetch of get_service_log and the single-page log     *)
(* query of getLogs with its time-range parser.                            *)
(*                                                                         *)
(* Text.  A JavaScript string is a sequence of atoms.  An atom is a TLA+   *)
(* string standing for an indivisible run of characters; the characters    *)
(* the code inspects one by one (a comma, a blank, a digit, a unit letter) *)
(* are atoms of their own.  A tool name is therefore a one-atom text,      *)
(* <<"list_services">>, and a message is the concatenation of its parts.   *)
(* "s contains t" is: t is a contiguous run of atoms of s.                 *)
(***************************************************************************)
EXTENDS Integers, Sequences, FiniteSets, TLC

VARIABLES
  \* ---- tool filter (src/lib/cli-args.js 417-459) and its caller
  enabledTools,    \* first argument of createToolFilter: a list or null
  disabledTools,   \* second argument of createToolFilter: a list or null
  isRemote,        \* truthiness of the third argument
  toolFilter,      \* what createToolFilter produced: a closure or an error
  asked,           \* the last call of the returned predicate and its answer
  \* ---- the server process (src/unnamed/part_000 33-230)
  argv,            \* the values of --enabled-tools and --disabled-tools
  GCP_STDIO,       \* whether process.env.GCP_STDIO is set
  gcpInfo,         \* module level checkGCP(): whether it names a project
  pc,              \* where the top-level code of the process stands
  request,         \* the HTTP request being handled, if any
  cliConfig,       \* what parseCliArgs produced in getServer
  registered,      \* the tool names registered on the last server built
  registeredBy,    \* the function that registered them
  accepted,        \* the number of client requests the process accepted
  exitCode,        \* the status process.exit was called with, if it was
  stderr,          \* the last message written with console.error
  \* ---- one call of the get_service_log handler (part_000 419-450)
  logPages,        \* what the logging backend holds for the service, by page
  logArgs,         \* the handler's arguments: project, region, service
  fetchPc,         \* "idle", "awaiting" (a call is in flight) or "returned"
  allLogs,         \* the handler's accumulator
  requestOptions,  \* the handler's requestOptions
  calls,           \* the requestOptions of every getServiceLogs call, in order
  responses,       \* the responses received, in order
  fetchResult,     \* the payload the handler returned
  \* ---- getLogs (src/lib/cli-args.js 66-161)
  loggingClient,   \* the module level client: unset, or built for a project
  projectId,       \* first argument of the getLogs call under way
  options,         \* second argument of the getLogs call under way
  now,             \* the instant `new Date()` gives in buildTimeRangeFilter
  logsPc,          \* "idle", "importing", "awaiting", "returned" or "threw"
  timeFilter,      \* what buildTimeRangeFilter did in this call
  filterQuery,     \* the filter string, once built
  getEntriesCalls, \* the requests handed to loggingClient.getEntries
  logsResult,      \* what the getLogs call returned or threw
  \* ---- concurrent calls of getLogs and getResourceTypes (cli-args.js 83-87,
  \*      168-172), all sharing loggingClient
  inflight,        \* by call: the function, its projectId, where it stands
  constructions,   \* the projectId of every `new Logging(...)`, in order
  \* ---- one call of a tool handler (part_000 255-994)
  toolCall,        \* the tool called, by which registration, and its arguments
  toolPc,          \* "idle", "awaiting" (the backend call) or "done"
  toolResult,      \* what the handler gave the registration layer
  backendTarget,   \* the project the handler's backend call is addressed to
  \* ---- one call of formatLogsForDisplay (cli-args.js 314-369)
  logEntries,      \* first argument of formatLogsForDisplay: a list, null or undefined
  format,          \* second argument of formatLogsForDisplay, if given
  table,           \* rows and colWidths of formatLogsAsTable, when it ran
  display,         \* the string formatLogsForDisplay returned
  \* ---- formatLogEntry over a page (cli-args.js 148, 245-306)
  rawEntries,      \* the entries getEntries resolved with
  formattedLogs    \* entries.map(formatLogEntry): the normalized entries, or that it threw

filterVars == <<enabledTools, disabledTools, isRemote, toolFilter, asked>>

serverVars == <<argv, GCP_STDIO, gcpInfo, pc, request, cliConfig, registered,
                registeredBy, accepted, exitCode, stderr>>

fetchVars == <<logPages, logArgs, fetchPc, allLogs, requestOptions, calls,
               responses, fetchResult>>

logsVars == <<loggingClient, projectId, options, now, logsPc, timeFilter,
              filterQuery, getEntriesCalls, logsResult>>

clientVars == <<inflight, constructions>>

toolVars == <<toolCall, toolPc, toolResult, backendTarget>>

formatVars == <<logEntries, format, table, display>>

entryVars == <<rawEntries, formattedLogs>>

vars == <<filterVars, serverVars, fetchVars, logsVars, clientVars, toolVars,
          formatVars, entryVars>>

\* What the server process leaves alone, and what a direct call of
\* createToolFilter leaves alone
outsideServer == <<fetchVars, logsVars, clientVars, toolVars, formatVars,
                   entryVars>>
outsideFilter == <<serverVars, fetchVars, logsVars, clientVars, toolVars,
                   formatVars, entryVars>>
outsideFetch == <<filterVars, serverVars, logsVars, clientVars, toolVars,
                  formatVars, entryVars>>
outsideLogs == <<filterVars, serverVars, fetchVars, clientVars, toolVars,
                 formatVars, entryVars>>
outsideClients == <<filterVars, serverVars, fetchVars, projectId, options,
                    now, logsPc, timeFilter, filterQuery, getEntriesCalls,
                    logsResult, toolVars, formatVars, entryVars>>
outsideTools == <<filterVars, serverVars, fetchVars, logsVars, clientVars,
                  formatVars, entryVars>>
outsideFormat == <<filterVars, serverVars, fetchVars, logsVars, clientVars,
                   toolVars, entryVars>>
outsideEntry == <<filterVars, serverVars, fetchVars, logsVars, clientVars,
                  toolVars, formatVars>>

---------------------------------------------------------------------------
(* Text helpers                                                            *)

\* Array.prototype.includes
Includes(arr, x) == \E i \in 1..Len(arr) : arr[i] = x

\* Array.prototype.join: the elements are texts, sep is a text
RECURSIVE Join(_, _)
Join(arr, sep) ==
  IF Len(arr) = 0 THEN <<>>
  ELSE IF Len(arr) = 1 THEN arr[1]
  ELSE arr[1] \o sep \o Join(Tail(arr), sep)

\* String.prototype.includes on texts: t is a contiguous run of atoms of s
Contains(s, t) ==
  \E i \in 1..(Len(s) - Len(t) + 1) : SubSeq(s, i, i + Len(t) - 1) = t

\* The runs of atoms of t between the occurrences of the atom sep
RECURSIVE SplitAt(_, _)
SplitAt(t, sep) ==
  IF \A i \in 1..Len(t) : t[i] # sep
  THEN << t >>
  ELSE LET k == CHOOSE i \in 1..Len(t) :
                  t[i] = sep /\ \A j \in 1..(i - 1) : t[j] # sep
       IN  << SubSeq(t, 1, k - 1) >> \o SplitAt(SubSeq(t, k + 1, Len(t)), sep)

\* A list-or-null value: null, or an array of texts
Null == [isNull |-> TRUE, items |-> <<>>]
Arr(s) == [isNull |-> FALSE, items |-> s]

\* the test `list && list.length > 0`
NonEmpty(list) == ~list.isNull /\ Len(list.items) > 0

---------------------------------------------------------------------------
(* Values before anything has run                                          *)

\* let toolFilter; before createToolFilter has returned
NoFilter == [state |-> "unset", enabledTools |-> Null, disabledTools |-> Null,
             message |-> <<>>]

\* the predicate has not been called
NotAsked == [done |-> FALSE, toolName |-> <<>>, answer |-> FALSE]

\* An option as minimist hands it over: undefined, or a string
Absent == [present |-> FALSE, text |-> <<>>]
Opt(t) == [present |-> TRUE, text |-> t]

\* let cliConfig; before parseCliArgs has returned
NoConfig == [state |-> "unset", enabledTools |-> Null, disabledTools |-> Null,
             message |-> <<>>]

\* exitCode: no status while the process runs, else the status it exited with
Running == <<>>
Exited(status) == <<status>>

\* no HTTP request is being handled
NoRequest == [route |-> "none", at |-> "none"]

\* requestOptions: undefined, or the options that fetch the page named
Undefined == [defined |-> FALSE, page |-> 0]
NextPage(i) == [defined |-> TRUE, page |-> i]

\* no payload returned yet
NoResult == [kind |-> "none", text |-> <<>>]

FilterIdle ==
  /\ enabledTools = Null
  /\ disabledTools = Null
  /\ isRemote = FALSE
  /\ toolFilter = NoFilter
  /\ asked = NotAsked

ServerIdle ==
  /\ argv = [enabled |-> Absent, disabled |-> Absent]
  /\ GCP_STDIO = FALSE
  /\ gcpInfo = FALSE
  /\ pc = "off"
  /\ request = NoRequest
  /\ cliConfig = NoConfig
  /\ registered = {}
  /\ registeredBy = "none"
  /\ accepted = 0
  /\ exitCode = Running
  /\ stderr = <<>>

\* let loggingClient; before the first use
NoClient == [set |-> FALSE, projectId |-> ""]

\* a number option: undefined, or a number
NoNumber == [present |-> FALSE, n |-> 0]
Num(n) == [present |-> TRUE, n |-> n]

NoOptions == [filter |-> Absent, resourceType |-> Absent, severity |-> Absent,
              timeRange |-> Absent, limit |-> NoNumber, orderBy |-> Absent,
              pageToken |-> Absent]

\* an instant: the day since 1970-01-01 and the millisecond of that day
Epoch == [day |-> 0, ms |-> 0]

\* buildTimeRangeFilter has not been called
NotCalled == [kind |-> "notcalled", startTime |-> Epoch, text |-> <<>>]

NotBuilt == [built |-> FALSE, text |-> <<>>]

NoLogsResult == [kind |-> "none", query |-> <<>>, nextPageToken |-> Absent,
                 totalCount |-> 0, message |-> <<>>]

\* the variables of one getLogs call, between calls
CallIdle ==
  /\ projectId = ""
  /\ options = NoOptions
  /\ now = Epoch
  /\ logsPc = "idle"
  /\ timeFilter = NotCalled
  /\ filterQuery = NotBuilt
  /\ getEntriesCalls = <<>>
  /\ logsResult = NoLogsResult

\* no concurrent call has been made
ClientsIdle == inflight = <<>> /\ constructions = <<>>

LogsIdle == loggingClient = NoClient /\ CallIdle /\ ClientsIdle

\* Values of tool arguments as the handler sees them
JsUndefined == [type |-> "undefined", text |-> <<>>]
JsString(t) == [type |-> "string", text |-> t]
JsNumber(t) == [type |-> "number", text |-> t]

\* files: not an array, or an array of files
NotAnArray == [isArray |-> FALSE, items |-> <<>>]
Files(items) == [isArray |-> TRUE, items |-> items]

NoToolCall == [name |-> <<>>, remote |-> FALSE, project |-> JsUndefined,
               region |-> JsUndefined, service |-> JsUndefined,
               files |-> NotAnArray, folderPath |-> JsUndefined,
               projectId |-> JsUndefined]

NoToolResult == [kind |-> "none", text |-> <<>>]

\* the handler has issued no backend call
NoBackendCall == [called |-> FALSE, project |-> JsUndefined]

ToolsIdle ==
  /\ toolCall = NoToolCall
  /\ toolPc = "idle"
  /\ toolResult = NoToolResult
  /\ backendTarget = NoBackendCall

\* formatLogsForDisplay has not been called
NoEntries == [kind |-> "undefined", items |-> <<>>]
NoTable == [built |-> FALSE, rows |-> <<>>, colWidths |-> <<>>]
NotDisplayed == [returned |-> FALSE, text |-> <<>>]

FormatIdle ==
  /\ logEntries = NoEntries
  /\ format = Absent
  /\ table = NoTable
  /\ display = NotDisplayed

\* No page has been mapped
NotMapped == [kind |-> "none", logs |-> <<>>]

EntryIdle == rawEntries = <<>> /\ formattedLogs = NotMapped

FetchIdle ==
  /\ logPages = <<>>
  /\ logArgs = [project |-> "", region |-> "", service |-> ""]
  /\ fetchPc = "idle"
  /\ allLogs = <<>>
  /\ requestOptions = Undefined
  /\ calls = <<>>
  /\ responses = <<>>
  /\ fetchResult = NoResult

---------------------------------------------------------------------------
(* Tool catalogs and the tool filter                                       *)

LOCAL_TOOLS ==
  << <<"list_projects">>, <<"create_project">>, <<"list_services">>,
     <<"get_service">>, <<"get_service_log">>, <<"deploy_local_files">>,
     <<"deploy_local_folder">>, <<"deploy_file_contents">> >>

\* A slip in the remote catalog: the log query tool the remote registration
\* offers is entered here and not in the local catalog
REMOTE_TOOLS_WithGetLogs ==
  << <<"list_services">>, <<"get_service">>, <<"get_service_log">>,
     <<"get_logs">>, <<"deploy_file_contents">> >>

REMOTE_TOOLS ==
  << <<"list_services">>, <<"get_service">>, <<"get_service_log">>,
     <<"deploy_file_contents">> >>

\* The names the README gives as available, per mode
README_LOCAL ==
  << <<"list_projects">>, <<"create_project">>, <<"list_services">>,
     <<"get_service">>, <<"get_service_log">>, <<"get_logs">>,
     <<"get_log_resource_types">>, <<"deploy_local_files">>,
     <<"deploy_local_folder">>, <<"deploy_file_contents">> >>

README_REMOTE ==
  << <<"list_services">>, <<"get_service">>, <<"get_service_log">>,
     <<"get_logs">>, <<"get_log_resource_types">>,
     <<"deploy_file_contents">> >>

AvailableTools(remote) == IF remote THEN REMOTE_TOOLS ELSE LOCAL_TOOLS

ModeName(remote) == IF remote THEN <<"remote">> ELSE <<"local">>

\* The text of the error createToolFilter throws for one list
InvalidToolsMessage(flag, invalid, remote) ==
  <<"Invalid tool names in ", flag, ": ">> \o Join(invalid, <<", ">>)
    \o <<". ", "Available tools in ">> \o ModeName(remote) \o <<" mode: ">>
    \o Join(AvailableTools(remote), <<", ">>)

\* filter(tool => !availableTools.includes(tool))
InvalidIn(list, remote) ==
  SelectSeq(list.items, LAMBDA tool : ~Includes(AvailableTools(remote), tool))

Threw(msg) == [state |-> "threw", enabledTools |-> Null, disabledTools |-> Null,
               message |-> msg]

\* A slip in createToolFilter: the pair of two non-empty lists is refused here
\* too, with the words of parseCliArgs
CreateToolFilterExclusive(enabled, disabled, remote) ==
  IF NonEmpty(enabled) /\ NonEmpty(disabled)
  THEN Threw(<<"Cannot specify both ", "--enabled-tools", " and ", "--disabled-tools",
               ". Please use only one.">>)
  ELSE IF NonEmpty(enabled) /\ Len(InvalidIn(enabled, remote)) > 0
  THEN Threw(InvalidToolsMessage("--enabled-tools", InvalidIn(enabled, remote), remote))
  ELSE IF NonEmpty(disabled) /\ Len(InvalidIn(disabled, remote)) > 0
  THEN Threw(InvalidToolsMessage("--disabled-tools", InvalidIn(disabled, remote), remote))
  ELSE [state |-> "ready", enabledTools |-> enabled, disabledTools |-> disabled,
        message |-> <<>>]

\* createToolFilter: the enabled list is validated first and throws on its
\* own; the disabled list is looked at only when the enabled list passed.
\* On success the result is the closure shouldRegisterTool over both lists.
CreateToolFilter(enabled, disabled, remote) ==
  IF NonEmpty(enabled) /\ Len(InvalidIn(enabled, remote)) > 0
  THEN Threw(InvalidToolsMessage("--enabled-tools", InvalidIn(enabled, remote), remote))
  ELSE IF NonEmpty(disabled) /\ Len(InvalidIn(disabled, remote)) > 0
  THEN Threw(InvalidToolsMessage("--disabled-tools", InvalidIn(disabled, remote), remote))
  ELSE [state |-> "ready", enabledTools |-> enabled, disabledTools |-> disabled,
        message |-> <<>>]

\* A slip in shouldRegisterTool: the deny list is consulted with the test inverted
ShouldRegisterToolInverted(f, toolName) ==
  IF NonEmpty(f.enabledTools) THEN Includes(f.enabledTools.items, toolName)
  ELSE IF NonEmpty(f.disabledTools) THEN Includes(f.disabledTools.items, toolName)
  ELSE TRUE

\* shouldRegisterTool, the closure createToolFilter returns
ShouldRegisterTool(f, toolName) ==
  IF NonEmpty(f.enabledTools) THEN Includes(f.enabledTools.items, toolName)
  ELSE IF NonEmpty(f.disabledTools) THEN ~Includes(f.disabledTools.items, toolName)
  ELSE TRUE

---------------------------------------------------------------------------
(* Inputs of the direct calls of createToolFilter                          *)

\* The longest list handed to createToolFilter
MaxListLen == 2

\* Names tried in the lists: local-only, in both catalogs, README-only, unknown
SampleNames ==
  { <<"list_projects">>, <<"list_services">>, <<"get_logs">>, <<"bogus_tool">> }

RECURSIVE SeqsUpTo(_, _)
SeqsUpTo(S, n) ==
  IF n = 0 THEN { <<>> }
  ELSE LET shorter == SeqsUpTo(S, n - 1)
       IN  shorter \cup { Append(s, x) : s \in { t \in shorter : Len(t) = n - 1 }, x \in S }

ToolLists == { Null } \cup { Arr(s) : s \in SeqsUpTo(SampleNames, MaxListLen) }

Ranges(seq) == { seq[i] : i \in 1..Len(seq) }

\* Names the predicate is asked about
QueryNames == Ranges(LOCAL_TOOLS) \cup Ranges(README_LOCAL) \cup SampleNames

---------------------------------------------------------------------------
(* parseCliArgs                                                            *)

\* String.prototype.split(','): the runs of atoms between the commas
Split(t) == SplitAt(t, ",")

\* String.prototype.trim: the blanks at both ends go
RECURSIVE Trim(_)
Trim(t) ==
  IF Len(t) = 0 THEN t
  ELSE IF t[1] = " " THEN Trim(Tail(t))
  ELSE IF t[Len(t)] = " " THEN Trim(SubSeq(t, 1, Len(t) - 1))
  ELSE t

MapTrim(segs) == [i \in 1..Len(segs) |-> Trim(segs[i])]

\* value ? value.split(',').map(t => t.trim()).filter(t => t.length > 0) : null
\* (an empty string is falsy and gives null; a string of separators gives [])
ParseToolList(opt) ==
  IF opt.present /\ Len(opt.text) > 0
  THEN Arr(SelectSeq(MapTrim(Split(opt.text)), LAMBDA t : Len(t) > 0))
  ELSE Null

BothFlagsMessage ==
  <<"Cannot specify both ", "--enabled-tools", " and ", "--disabled-tools",
    ". Please use only one.">>

\* A slip in parseCliArgs: the two lists are refused only when they share a name
ParseCliArgsOverlapOnly(args) ==
  LET enabled == ParseToolList(args.enabled)
      disabled == ParseToolList(args.disabled)
  IN  IF NonEmpty(enabled) /\ NonEmpty(disabled)
         /\ \E i \in 1..Len(enabled.items) : Includes(disabled.items, enabled.items[i])
      THEN [state |-> "threw", enabledTools |-> Null, disabledTools |-> Null,
            message |-> BothFlagsMessage]
      ELSE [state |-> "ok", enabledTools |-> enabled, disabledTools |-> disabled,
            message |-> <<>>]

\* parseCliArgs: the configuration, or the error it throws
ParseCliArgs(args) ==
  LET enabled == ParseToolList(args.enabled)
      disabled == ParseToolList(args.disabled)
  IN  IF NonEmpty(enabled) /\ NonEmpty(disabled)
      THEN [state |-> "threw", enabledTools |-> Null, disabledTools |-> Null,
            message |-> BothFlagsMessage]
      ELSE [state |-> "ok", enabledTools |-> enabled, disabledTools |-> disabled,
            message |-> <<>>]

---------------------------------------------------------------------------
(* The server process: start-up, getServer, the HTTP handlers              *)

\* The tools registerTools offers to the filter, in the order of its code
REGISTER_LOCAL ==
  << <<"list_projects">>, <<"create_project">>, <<"list_services">>,
     <<"get_service">>, <<"get_service_log">>, <<"get_logs">>,
     <<"get_log_resource_types">>, <<"deploy_local_files">>,
     <<"deploy_local_folder">>, <<"deploy_file_contents">> >>

\* The tools registerToolsRemote offers to the filter
REGISTER_REMOTE ==
  << <<"list_services">>, <<"get_service">>, <<"get_service_log">>,
     <<"get_logs">>, <<"get_log_resource_types">>,
     <<"deploy_file_contents">> >>

\* if (!toolFilter || toolFilter(name)) server.tool(name, ...)
RegisterTools(f) == { n \in Ranges(REGISTER_LOCAL) : ShouldRegisterTool(f, n) }

RegisterToolsRemote(f) == { n \in Ranges(REGISTER_REMOTE) : ShouldRegisterTool(f, n) }

\* shouldStartStdio reads the environment and the module level gcpInfo
ShouldStartStdio == IF GCP_STDIO THEN TRUE ELSE IF gcpInfo THEN FALSE ELSE TRUE

\* The requests one run of the process is followed through
MaxRequests == 2


\* Values of an option on the command line
OptionValues ==
  { Absent,
    Opt(<<>>),
    Opt(<< "list_services" >>),
    Opt(<< "list_services", ",", "get_service" >>),
    Opt(<< " ", "create_project", " ", ",", " ", ",", "list_projects" >>),
    Opt(<< ",", "," >>),
    Opt(<< " ", ",", " " >>),
    Opt(<< "get_logs" >>),
    Opt(<< "bogus_tool", ",", "list_services" >>) }

Init ==
  /\ argv \in [enabled : OptionValues, disabled : OptionValues]
  /\ GCP_STDIO \in BOOLEAN
  /\ gcpInfo \in BOOLEAN
  /\ pc = "boot"
  /\ request = NoRequest
  /\ cliConfig = NoConfig
  /\ registered = {}
  /\ registeredBy = "none"
  /\ accepted = 0
  /\ exitCode = Running
  /\ stderr = <<>>
  /\ FilterIdle
  /\ FetchIdle
  /\ LogsIdle
  /\ ToolsIdle
  /\ FormatIdle
  /\ EntryIdle

\* process.exit(1) after console.error(prefix + error.message)
Exit1(prefix, message) ==
  /\ stderr' = <<prefix>> \o message
  /\ exitCode' = Exited(1)
  /\ pc' = "exited"
  /\ request' = NoRequest

\* lines 54-57: in stdio mode the top level awaits ensureGCPCredentials
StartStdio ==
  /\ pc = "boot"
  /\ ShouldStartStdio
  /\ pc' = "credentials"
  /\ UNCHANGED <<filterVars, argv, GCP_STDIO, gcpInfo, request, cliConfig,
                 registered, registeredBy, accepted, exitCode, stderr, outsideServer>>

\* getServer up to its first await: parseCliArgs, exit(1) when it throws
GetServerParse(at) ==
  /\ cliConfig' = ParseCliArgs(argv)
  /\ IF cliConfig'.state = "threw"
     THEN Exit1("CLI argument error: ", cliConfig'.message)
     ELSE /\ at
          /\ UNCHANGED <<exitCode, stderr>>

\* lines 125-127: the stdio branch calls getServer before any client is served
StdioGetServer ==
  /\ pc = "credentials"
  /\ GetServerParse(pc' = "stdio_checkGCP" /\ UNCHANGED request)
  /\ UNCHANGED <<filterVars, argv, GCP_STDIO, gcpInfo, registered,
                 registeredBy, accepted, outsideServer>>

\* A slip in getServer: the mode is taken from the metadata answer alone
IsRemoteByMetadataOnly(project) == project

\* const isRemote = !shouldStartStdio() && (gcpInfo && gcpInfo.project), with
\* the gcpInfo of this call of getServer
IsRemote(project) == ~ShouldStartStdio /\ project

\* getServer after `await checkGCP()`: the metadata answer of this call picks
\* the catalog and the registration function; createToolFilter may throw
GetServerFinish(project, done) ==
  /\ isRemote' = IsRemote(project)
  /\ enabledTools' = cliConfig.enabledTools
  /\ disabledTools' = cliConfig.disabledTools
  /\ toolFilter' = CreateToolFilter(cliConfig.enabledTools, cliConfig.disabledTools,
                                    isRemote')
  /\ IF toolFilter'.state = "threw"
     THEN /\ Exit1("Tool filtering error: ", toolFilter'.message)
          /\ UNCHANGED <<registered, registeredBy>>
     ELSE /\ IF ShouldStartStdio \/ ~project
             THEN /\ registered' = RegisterTools(toolFilter')
                  /\ registeredBy' = "registerTools"
             ELSE /\ registered' = RegisterToolsRemote(toolFilter')
                  /\ registeredBy' = "registerToolsRemote"
          /\ done
          /\ UNCHANGED <<exitCode, stderr>>
  /\ UNCHANGED <<asked, argv, GCP_STDIO, gcpInfo, cliConfig, accepted, outsideServer>>

\* lines 127-129: the server is built and connected to the stdio transport
StdioConnect ==
  /\ pc = "stdio_checkGCP"
  /\ \E project \in BOOLEAN :
       GetServerFinish(project, pc' = "connected" /\ UNCHANGED request)

\* lines 130-223: otherwise the routes are set up and app.listen is called;
\* getServer is not called on this path
StartHttp ==
  /\ pc = "boot"
  /\ ~ShouldStartStdio
  /\ pc' = "listening"
  /\ UNCHANGED <<filterVars, argv, GCP_STDIO, gcpInfo, request, cliConfig,
                 registered, registeredBy, accepted, exitCode, stderr, outsideServer>>

\* app.post('/mcp') and app.get('/sse'): the handler of an accepted request
\* calls getServer, which parses the command line
HttpRequest ==
  /\ pc = "listening"
  /\ request = NoRequest
  /\ accepted < MaxRequests
  /\ accepted' = accepted + 1
  /\ \E route \in {"/mcp", "/sse"} :
       GetServerParse(request' = [route |-> route, at |-> "checkGCP"] /\ UNCHANGED pc)
  /\ UNCHANGED <<filterVars, argv, GCP_STDIO, gcpInfo, registered, registeredBy,
                 outsideServer>>

\* the handler goes on: the server is built and connected to the transport
HttpServe ==
  /\ pc = "listening"
  /\ request.at = "checkGCP"
  /\ \E project \in BOOLEAN :
       GetServerFinish(project, request' = NoRequest /\ UNCHANGED pc)

\* process.on('SIGINT'): exit(0)
Sigint ==
  /\ pc \in {"credentials", "stdio_checkGCP", "connected", "listening"}
  /\ exitCode' = Exited(0)
  /\ pc' = "exited"
  /\ request' = NoRequest
  /\ UNCHANGED <<filterVars, argv, GCP_STDIO, gcpInfo, cliConfig, registered,
                 registeredBy, accepted, stderr, outsideServer>>

Next ==
  \/ StartStdio
  \/ StdioGetServer
  \/ StdioConnect
  \/ StartHttp
  \/ HttpRequest
  \/ HttpServe
  \/ Sigint

Spec == Init /\ [][Next]_vars

---------------------------------------------------------------------------
(* Direct calls of createToolFilter and of the predicate it returns        *)

InitFilter ==
  /\ enabledTools \in ToolLists
  /\ disabledTools \in ToolLists
  /\ isRemote \in BOOLEAN
  /\ toolFilter = NoFilter
  /\ asked = NotAsked
  /\ ServerIdle
  /\ FetchIdle
  /\ LogsIdle
  /\ ToolsIdle
  /\ FormatIdle
  /\ EntryIdle

\* createToolFilter(enabledTools, disabledTools, isRemote)
CallCreateToolFilter ==
  /\ toolFilter.state = "unset"
  /\ toolFilter' = CreateToolFilter(enabledTools, disabledTools, isRemote)
  /\ UNCHANGED <<enabledTools, disabledTools, isRemote, asked, outsideFilter>>

\* toolFilter(toolName), any number of times
CallShouldRegisterTool ==
  /\ toolFilter.state = "ready"
  /\ \E n \in QueryNames :
       asked' = [done |-> TRUE, toolName |-> n,
                 answer |-> ShouldRegisterTool(toolFilter, n)]
  /\ UNCHANGED <<enabledTools, disabledTools, isRemote, toolFilter, outsideFilter>>

NextFilter == CallCreateToolFilter \/ CallShouldRegisterTool

SpecFilter == InitFilter /\ [][NextFilter]_vars

---------------------------------------------------------------------------
(* get_service_log: the exhaustive fetch                                   *)

\* The most pages the backend holds, and the most log lines of one page
MaxPages == 3
MaxPageSize == 2

\* Line j of page i
LogLine(i, j) == "p" \o ToString(i) \o "." \o ToString(j)

\* The lines of page i, each a text; pages[i] is the number of its lines
PageLines(pages, i) == [j \in 1..pages[i] |-> << LogLine(i, j) >>]

\* getServiceLogs(project, region, service, requestOptions): one page of the
\* backend, its lines joined into one string, and the options that fetch the
\* next page when there is one
GetServiceLogs(pages, reqOptions) ==
  LET i == IF reqOptions.defined THEN reqOptions.page ELSE 1
  IN  [logs |-> Join(PageLines(pages, i), <<"\n">>),
       requestOptions |-> IF i < Len(pages) THEN NextPage(i + 1) ELSE Undefined]

\* Errors a backend call fails with
BackendErrors == { "PERMISSION_DENIED", "UNAVAILABLE" }

\* A slip in the loop: the new page is put in front of the pages fetched so far
AccumulateInFront(logs, response) ==
  IF Len(response.logs) > 0 THEN << response.logs >> \o logs ELSE logs

\* if (response.logs) allLogs.push(response.logs)
Accumulate(logs, response) ==
  IF Len(response.logs) > 0 THEN Append(logs, response.logs) ELSE logs

\* the text of the catch branch
ServiceLogError(args, message) ==
  << "Error getting Logs for service ", args.service, " in project ", args.project,
     " (region ", args.region, "): ", message >>

InitFetch ==
  /\ logPages \in UNION { [1..k -> 0..MaxPageSize] : k \in 1..MaxPages }
  /\ logArgs \in [project : {"proj-a", "proj-b"}, region : {"europe-west1"},
                  service : {"hello"}]
  /\ fetchPc = "idle"
  /\ allLogs = <<>>
  /\ requestOptions = Undefined
  /\ calls = <<>>
  /\ responses = <<>>
  /\ fetchResult = NoResult
  /\ FilterIdle
  /\ ServerIdle
  /\ LogsIdle
  /\ ToolsIdle
  /\ FormatIdle
  /\ EntryIdle

\* A slip at the start of the handler: the first page is requested twice
\* without waiting
InvokeGetServiceLogTwice ==
  /\ fetchPc = "idle"
  /\ allLogs' = <<>>
  /\ requestOptions' = Undefined
  /\ calls' = calls \o << requestOptions', requestOptions' >>
  /\ fetchPc' = "awaiting"
  /\ UNCHANGED <<logPages, logArgs, responses, fetchResult, outsideFetch>>

\* The handler starts: allLogs = [], requestOptions undefined, and the first
\* getServiceLogs call is issued with them
InvokeGetServiceLog ==
  /\ fetchPc = "idle"
  /\ allLogs' = <<>>
  /\ requestOptions' = Undefined
  /\ calls' = Append(calls, requestOptions')
  /\ fetchPc' = "awaiting"
  /\ UNCHANGED <<logPages, logArgs, responses, fetchResult, outsideFetch>>

\* A slip in the loop: it gives up after two pages
ServiceLogResponseCapped ==
  /\ fetchPc = "awaiting"
  /\ LET response == GetServiceLogs(logPages, calls[Len(calls)])
     IN  /\ responses' = Append(responses, response)
         /\ allLogs' = Accumulate(allLogs, response)
         /\ requestOptions' = response.requestOptions
  /\ IF requestOptions'.defined /\ Len(calls) < 2
     THEN /\ calls' = Append(calls, requestOptions')
          /\ UNCHANGED <<fetchPc, fetchResult>>
     ELSE /\ fetchResult' = [kind |-> "logs", text |-> Join(allLogs', <<"\n">>)]
          /\ fetchPc' = "returned"
          /\ UNCHANGED calls
  /\ UNCHANGED <<logPages, logArgs, outsideFetch>>

\* The awaited call returns: the page is accumulated, requestOptions is taken
\* from the response, and the loop goes on while it is set; else the handler
\* returns allLogs.join('\n')
ServiceLogResponse ==
  /\ fetchPc = "awaiting"
  /\ LET response == GetServiceLogs(logPages, calls[Len(calls)])
     IN  /\ responses' = Append(responses, response)
         /\ allLogs' = Accumulate(allLogs, response)
         /\ requestOptions' = response.requestOptions
  /\ IF requestOptions'.defined
     THEN /\ calls' = Append(calls, requestOptions')
          /\ UNCHANGED <<fetchPc, fetchResult>>
     ELSE /\ fetchResult' = [kind |-> "logs", text |-> Join(allLogs', <<"\n">>)]
          /\ fetchPc' = "returned"
          /\ UNCHANGED calls
  /\ UNCHANGED <<logPages, logArgs, outsideFetch>>

\* A slip in the catch branch: what was fetched so far is returned with the error
ServiceLogFailureKeepsLogs ==
  /\ fetchPc = "awaiting"
  /\ \E message \in BackendErrors :
       fetchResult' = [kind |-> "error",
                       text |-> Join(allLogs, <<"\n">>) \o ServiceLogError(logArgs, message)]
  /\ fetchPc' = "returned"
  /\ UNCHANGED <<logPages, logArgs, allLogs, requestOptions, calls, responses,
                 outsideFetch>>

\* The awaited call throws: the catch branch returns the error text
ServiceLogFailure ==
  /\ fetchPc = "awaiting"
  /\ \E message \in BackendErrors :
       fetchResult' = [kind |-> "error", text |-> ServiceLogError(logArgs, message)]
  /\ fetchPc' = "returned"
  /\ UNCHANGED <<logPages, logArgs, allLogs, requestOptions, calls, responses,
                 outsideFetch>>

NextFetch == InvokeGetServiceLog \/ ServiceLogResponse \/ ServiceLogFailure

SpecFetch == InitFetch /\ [][NextFetch]_vars

\* The awaited call of the handler settles: the backend answers or fails, and
\* the event loop then runs what follows the await
SpecFetchFair == SpecFetch /\ WF_vars(ServiceLogResponse \/ ServiceLogFailure)

---------------------------------------------------------------------------
(* Instants and their ISO-8601 text                                        *)
(* The model checker's integers have 32 bits, so an instant is kept as the *)
(* day since 1970-01-01 and the millisecond of that day, and a number of   *)
(* milliseconds as whole days and a rest.                                  *)

MsPerDay == 24 * 60 * 60 * 1000

\* A Date holds at most this many days on either side of 1970-01-01;
\* toISOString throws a RangeError for a Date outside (an Invalid Date)
MaxDateDays == 100000000

ValidDate(t) ==
  \/ -MaxDateDays <= t.day /\ t.day < MaxDateDays
  \/ t.day = MaxDateDays /\ t.ms = 0

\* value * unit milliseconds, unit dividing a day
Millis(value, unit) ==
  [day |-> value \div (MsPerDay \div unit),
   ms |-> (value % (MsPerDay \div unit)) * unit]

\* t - d
Minus(t, d) ==
  IF t.ms >= d.ms
  THEN [day |-> t.day - d.day, ms |-> t.ms - d.ms]
  ELSE [day |-> t.day - d.day - 1, ms |-> t.ms - d.ms + MsPerDay]

\* n in decimal, at least width digits
RECURSIVE Pad(_, _)
Pad(n, width) ==
  IF width <= 1 /\ n < 10 THEN << ToString(n) >>
  ELSE Append(Pad(n \div 10, width - 1), ToString(n % 10))

\* Year, month and day of the month of a day number (proleptic Gregorian)
Civil(day) ==
  LET z == day + 719468
      era == z \div 146097
      doe == z - era * 146097
      yoe == (doe - doe \div 1460 + doe \div 36524 - doe \div 146096) \div 365
      doy == doe - (365 * yoe + yoe \div 4 - yoe \div 100)
      mp == (5 * doy + 2) \div 153
      m == IF mp < 10 THEN mp + 3 ELSE mp - 9
  IN  [y |-> yoe + era * 400 + (IF m <= 2 THEN 1 ELSE 0),
       m |-> m,
       d |-> doy - (153 * mp + 2) \div 5 + 1]

\* Date.prototype.toISOString of a valid Date: YYYY-MM-DDTHH:mm:ss.sssZ, the
\* year with a sign and six digits outside 0..9999
ToISOString(t) ==
  LET c == Civil(t.day)
      year == IF 0 <= c.y /\ c.y <= 9999 THEN Pad(c.y, 4)
              ELSE IF c.y < 0 THEN << "-" >> \o Pad(-c.y, 6)
              ELSE << "+" >> \o Pad(c.y, 6)
  IN  year \o << "-" >> \o Pad(c.m, 2) \o << "-" >> \o Pad(c.d, 2) \o << "T" >>
        \o Pad(t.ms \div 3600000, 2) \o << ":" >>
        \o Pad((t.ms \div 60000) % 60, 2) \o << ":" >>
        \o Pad((t.ms \div 1000) % 60, 2) \o << "." >>
        \o Pad(t.ms % 1000, 3) \o << "Z" >>

---------------------------------------------------------------------------
(* buildTimeRangeFilter                                                    *)

DigitChars == { "0", "1", "2", "3", "4", "5", "6", "7", "8", "9" }

DigitValue(c) == CHOOSE v \in 0..9 : ToString(v) = c

\* parseInt of a run of digits
RECURSIVE ParseInt(_)
ParseInt(t) ==
  IF Len(t) = 0 THEN 0
  ELSE 10 * ParseInt(SubSeq(t, 1, Len(t) - 1)) + DigitValue(t[Len(t)])

\* timeRange.match(/^(\d+)([hmd])$/)
Match(t) ==
  /\ Len(t) >= 2
  /\ \A i \in 1..(Len(t) - 1) : t[i] \in DigitChars
  /\ t[Len(t)] \in { "h", "m", "d" }

\* A slip in buildTimeRangeFilter: a token that does not match is an error
BuildTimeRangeFilterStrict(timeRange, at) ==
  IF ~Match(timeRange)
  THEN [kind |-> "threw", startTime |-> Epoch,
        text |-> << "Error: Invalid time range format" >>]
  ELSE LET value == ParseInt(SubSeq(timeRange, 1, Len(timeRange) - 1))
           unit == timeRange[Len(timeRange)]
           startTime ==
             IF unit = "h" THEN Minus(at, Millis(value, 60 * 60 * 1000))
             ELSE IF unit = "d" THEN Minus(at, Millis(value, 24 * 60 * 60 * 1000))
             ELSE Minus(at, Millis(value, 60 * 1000))
       IN  IF ValidDate(startTime)
           THEN [kind |-> "clause", startTime |-> startTime,
                 text |-> << "timestamp>=\"" >> \o ToISOString(startTime) \o << "\"" >>]
           ELSE [kind |-> "threw", startTime |-> startTime,
                 text |-> << "RangeError: Invalid time value" >>]

\* buildTimeRangeFilter(timeRange) called at instant `at`: null for a token
\* that does not match, else the clause; startTime.toISOString() throws when
\* the start lies outside the range of Date
BuildTimeRangeFilter(timeRange, at) ==
  IF ~Match(timeRange)
  THEN [kind |-> "null", startTime |-> Epoch, text |-> <<>>]
  ELSE LET value == ParseInt(SubSeq(timeRange, 1, Len(timeRange) - 1))
           unit == timeRange[Len(timeRange)]
           startTime ==
             IF unit = "h" THEN Minus(at, Millis(value, 60 * 60 * 1000))
             ELSE IF unit = "d" THEN Minus(at, Millis(value, 24 * 60 * 60 * 1000))
             ELSE Minus(at, Millis(value, 60 * 1000))
       IN  IF ValidDate(startTime)
           THEN [kind |-> "clause", startTime |-> startTime,
                 text |-> << "timestamp>=\"" >> \o ToISOString(startTime) \o << "\"" >>]
           ELSE [kind |-> "threw", startTime |-> startTime,
                 text |-> << "RangeError: Invalid time value" >>]

---------------------------------------------------------------------------
(* getLogs                                                                 *)

\* At most this many entries in the page getEntries resolves with
MaxEntries == 2

\* A string in a condition: undefined and '' are falsy
Truthy(o) == o.present /\ Len(o.text) > 0

Min(a, b) == IF a <= b THEN a ELSE b

\* The destructuring defaults: severity = 'DEFAULT', limit = 100,
\* orderBy = 'timestamp desc'
SeverityOf(o) == IF o.severity.present THEN o.severity.text ELSE << "DEFAULT" >>
LimitOf(o) == IF o.limit.present THEN o.limit.n ELSE 100
OrderByOf(o) == IF o.orderBy.present THEN o.orderBy.text ELSE << "timestamp desc" >>

\* The result of buildTimeRangeFilter where getLogs calls it
TimeFilterOf(o, at) ==
  IF Truthy(o.timeRange) THEN BuildTimeRangeFilter(o.timeRange.text, at)
  ELSE NotCalled

\* filterParts, in the order of the pushes
FilterParts(o, tf) ==
  (IF Truthy(o.filter) THEN << << "(" >> \o o.filter.text \o << ")" >> >> ELSE <<>>)
  \o (IF Truthy(o.resourceType)
      THEN << << "resource.type=\"" >> \o o.resourceType.text \o << "\"" >> >>
      ELSE <<>>)
  \o (IF Len(SeverityOf(o)) > 0 /\ SeverityOf(o) # << "DEFAULT" >>
      THEN << << "severity>=" >> \o SeverityOf(o) >>
      ELSE <<>>)
  \o (IF tf.kind = "clause" THEN << tf.text >> ELSE <<>>)

\* requestOptions, and the client the request goes through
RequestOptions(o, query, client) ==
  [client |-> client.projectId,
   filter |-> query,
   orderBy |-> OrderByOf(o),
   pageSize |-> Min(LimitOf(o), 1000),
   pageToken |-> IF Truthy(o.pageToken) THEN o.pageToken ELSE Absent]

Thrown(message) == [NoLogsResult EXCEPT !.kind = "threw", !.message = message]

LogsOptions ==
  [filter : { Absent, Opt(<<>>), Opt(<< "textPayload:", "a AND b" >>) },
   resourceType : { Absent, Opt(<< "cloud_run_revision" >>) },
   severity : { Absent, Opt(<< "DEFAULT" >>), Opt(<< "ERROR" >>) },
   timeRange : { Absent, Opt(<<>>),
                 Opt(<< "2", "h" >>), Opt(<< "3", "0", "m" >>), Opt(<< "7", "d" >>),
                 Opt(<< "1", "5", "0", "0", "m" >>),
                 Opt(<< "0", "h" >>), Opt(<< "0", "0", "7", "d" >>),
                 Opt(<< "a", "b", "c" >>), Opt(<< "5", "x" >>),
                 Opt(<< "2", "0", "0", "0", "0", "0", "0", "0", "0", "d" >>) },
   limit : { NoNumber, Num(1), Num(1000), Num(1001), Num(5000) },
   orderBy : { Absent, Opt(<< "timestamp asc" >>) },
   pageToken : { Absent, Opt(<<>>), Opt(<< "tok-1" >>) }]

\* Instants at which a call may run: 2026-11-06T08:04:05.123Z and
\* 2024-03-01T00:20:00.000Z
Instants == { [day |-> 20763, ms |-> 29045123], [day |-> 19783, ms |-> 1200000] }

InitLogs ==
  /\ FilterIdle
  /\ ServerIdle
  /\ FetchIdle
  /\ LogsIdle
  /\ ToolsIdle
  /\ FormatIdle
  /\ EntryIdle

\* getLogs from after the client is there up to the await of getEntries; an
\* exception of buildTimeRangeFilter goes through the catch and is rethrown
GetLogsBody(client) ==
  LET tf == TimeFilterOf(options', now')
      query == Join(FilterParts(options', tf), << " AND " >>)
  IN  /\ timeFilter' = tf
      /\ IF tf.kind = "threw"
         THEN /\ filterQuery' = NotBuilt
              /\ getEntriesCalls' = <<>>
              /\ logsPc' = "threw"
              /\ logsResult' = Thrown(tf.text)
         ELSE /\ filterQuery' = [built |-> TRUE, text |-> query]
              /\ getEntriesCalls' = << RequestOptions(options', query, client) >>
              /\ logsPc' = "awaiting"
              /\ logsResult' = NoLogsResult

\* getLogs(projectId, options) is called: the client is there, or is imported
InvokeGetLogs ==
  /\ logsPc = "idle"
  /\ projectId' \in { "proj-a", "proj-b" }
  /\ options' \in LogsOptions
  /\ IF loggingClient.set
     THEN /\ now' \in Instants
          /\ loggingClient' = loggingClient
          /\ GetLogsBody(loggingClient)
     ELSE /\ logsPc' = "importing"
          /\ UNCHANGED << loggingClient, now, timeFilter, filterQuery,
                          getEntriesCalls, logsResult >>
  /\ UNCHANGED outsideLogs

\* The import has resolved: the client is constructed for this call's project
ImportDone ==
  /\ logsPc = "importing"
  /\ loggingClient' = [set |-> TRUE, projectId |-> projectId]
  /\ now' \in Instants
  /\ UNCHANGED << projectId, options >>
  /\ GetLogsBody(loggingClient')
  /\ UNCHANGED outsideLogs

\* getEntries resolves: the result object is returned
GetEntriesReturns ==
  /\ logsPc = "awaiting"
  /\ \E count \in 0..MaxEntries, next \in { Absent, Opt(<< "tok-2" >>) } :
       logsResult' = [kind |-> "returned", query |-> filterQuery.text,
                      nextPageToken |-> next, totalCount |-> count,
                      message |-> <<>>]
  /\ logsPc' = "returned"
  /\ UNCHANGED << loggingClient, projectId, options, now, timeFilter,
                  filterQuery, getEntriesCalls >>
  /\ UNCHANGED outsideLogs

\* getEntries rejects: the catch logs the error and rethrows it
GetEntriesThrows ==
  /\ logsPc = "awaiting"
  /\ logsResult' = Thrown(<< "backend error" >>)
  /\ logsPc' = "threw"
  /\ UNCHANGED << loggingClient, projectId, options, now, timeFilter,
                  filterQuery, getEntriesCalls >>
  /\ UNCHANGED outsideLogs

\* The caller has the outcome; the next call starts from fresh locals
LogsSettle ==
  /\ logsPc \in { "returned", "threw" }
  /\ projectId' = ""
  /\ options' = NoOptions
  /\ now' = Epoch
  /\ logsPc' = "idle"
  /\ timeFilter' = NotCalled
  /\ filterQuery' = NotBuilt
  /\ getEntriesCalls' = <<>>
  /\ logsResult' = NoLogsResult
  /\ UNCHANGED loggingClient
  /\ UNCHANGED outsideLogs

NextLogs ==
  \/ InvokeGetLogs
  \/ ImportDone
  \/ GetEntriesReturns
  \/ GetEntriesThrows
  \/ LogsSettle

SpecLogs == InitLogs /\ [][NextLogs]_vars

---------------------------------------------------------------------------
(* Concurrent calls of getLogs and getResourceTypes                        *)
(* Both functions begin with the same lazy construction of loggingClient,  *)
(* which awaits the import of the library between the test and the         *)
(* assignment.  A call is followed from its entry to its return; the locals *)
(* of getLogs that do not bear on the client are left out here.            *)

MaxCalls == 3

CallIds == 1..MaxCalls

NoCall == [fn |-> "", projectId |-> "", pc |-> "idle", client |-> NoClient]

InitClients ==
  /\ FilterIdle
  /\ ServerIdle
  /\ FetchIdle
  /\ loggingClient = NoClient
  /\ CallIdle
  /\ ToolsIdle
  /\ FormatIdle
  /\ EntryIdle
  /\ inflight = [c \in CallIds |-> NoCall]
  /\ constructions = <<>>

\* After the client is there: getResourceTypes returns its list, getLogs
\* hands its request to the client and awaits
AfterClient(call, client) ==
  IF call.fn = "getResourceTypes"
  THEN [call EXCEPT !.pc = "returned", !.client = client]
  ELSE [call EXCEPT !.pc = "awaiting", !.client = client]

\* getLogs(projectId, ...) or getResourceTypes(projectId) is called:
\* if (!loggingClient) the call awaits the import
ClientCall(c) ==
  /\ inflight[c].pc = "idle"
  /\ \E fn \in { "getLogs", "getResourceTypes" }, p \in { "proj-a", "proj-b" } :
       LET call == [NoCall EXCEPT !.fn = fn, !.projectId = p]
       IN  inflight' = [inflight EXCEPT ![c] =
             IF loggingClient.set THEN AfterClient(call, loggingClient)
             ELSE [call EXCEPT !.pc = "importing"]]
  /\ UNCHANGED << loggingClient, constructions >>
  /\ UNCHANGED outsideClients

\* The import has resolved: loggingClient = new Logging({ projectId })
ClientImported(c) ==
  /\ inflight[c].pc = "importing"
  /\ loggingClient' = [set |-> TRUE, projectId |-> inflight[c].projectId]
  /\ constructions' = Append(constructions, inflight[c].projectId)
  /\ inflight' = [inflight EXCEPT ![c] = AfterClient(inflight[c], loggingClient')]
  /\ UNCHANGED outsideClients

\* getEntries has resolved or rejected: getLogs returns or rethrows
ClientSettled(c) ==
  /\ inflight[c].pc = "awaiting"
  /\ inflight' = [inflight EXCEPT ![c].pc = "returned"]
  /\ UNCHANGED << loggingClient, constructions >>
  /\ UNCHANGED outsideClients

\* The caller has the outcome
ClientReturn(c) ==
  /\ inflight[c].pc = "returned"
  /\ inflight' = [inflight EXCEPT ![c] = NoCall]
  /\ UNCHANGED << loggingClient, constructions >>
  /\ UNCHANGED outsideClients

NextClients ==
  \E c \in CallIds :
    \/ ClientCall(c)
    \/ ClientImported(c)
    \/ ClientSettled(c)
    \/ ClientReturn(c)

SpecClients == InitClients /\ [][NextClients]_vars

---------------------------------------------------------------------------
(* The tool handlers                                                       *)
(* One call of a registered handler, from its arguments to what it hands   *)
(* back: a payload, or an exception that leaves the handler.  The backend  *)
(* functions (listProjects, deploy, ...) resolve or reject; the page loop  *)
(* of get_service_log is one backend exchange here.                        *)

Payload(text) == [kind |-> "payload", text |-> text]
Escaped(message) == [kind |-> "escaped", text |-> message]
AwaitBackend == [kind |-> "await", text |-> <<>>]

IsString(v) == v.type = "string"

\* A value inside a template literal
Shown(v) == IF v.type = "undefined" THEN << "undefined" >> ELSE v.text

\* !file.content
NoContent(file) == ~(IsString(file.content) /\ Len(file.content.text) > 0)

\* The first file without content, if there is one
FirstWithoutContent(items) ==
  LET bad == { i \in 1..Len(items) : NoContent(items[i]) }
  IN  IF bad = {} THEN 0 ELSE CHOOSE i \in bad : \A j \in bad : i <= j

\* defaultProjectId of registerToolsRemote
CurrentProject == << "proj-gcp" >>

\* defaultRegion of registerToolsRemote
CurrentRegion == << "us-central1" >>

\* The project the handler works on
ProjectOf(call) == IF call.remote THEN CurrentProject ELSE Shown(call.project)

\* The console link of the deploy handlers' success text
Console(call) ==
  << "\nCloud Console: https://console.cloud.google.com/run/detail/" >>
  \o Shown(call.region) \o << "/" >> \o Shown(call.service) \o << "?project=" >>
  \o ProjectOf(call)

\* `project` as the remote get_service_log handler receives it: the schema
\* fills in currentProject when the caller names none
RemoteLogProject(call) ==
  IF call.project.type = "undefined" THEN JsString(CurrentProject) ELSE call.project

\* The project the backend call of the handler is addressed to: the local
\* handlers pass their `project` argument, the remote ones currentProject,
\* but the remote get_service_log passes its `project` argument too;
\* listProjects and createProjectAndAttachBilling are given no project
BackendTarget(call) ==
  LET name == call.name[1]
  IN  [called |-> TRUE,
       project |->
         IF name \in { "list_projects", "create_project" } THEN JsUndefined
         ELSE IF ~call.remote THEN call.project
         ELSE IF name = "get_service_log" THEN RemoteLogProject(call)
         ELSE JsString(CurrentProject)]

\* The handler up to its try block: what it returns or throws before any
\* backend call, or that it goes on to the backend call
ToolValidate(call) ==
  LET name == call.name[1]
      projectMissing == ~call.remote /\ ~IsString(call.project)
      missing == FirstWithoutContent(call.files.items)
  IN  IF name = "create_project"
      THEN IF call.projectId.type # "undefined"
              /\ (~IsString(call.projectId) \/ Trim(call.projectId.text) = <<>>)
           THEN Payload(<< "Error: If provided, Project ID must be a non-empty string." >>)
           ELSE AwaitBackend
      ELSE IF name = "list_services"
      THEN IF projectMissing
           THEN Payload(<< "Error: Project ID must be provided and be a non-empty string." >>)
           ELSE AwaitBackend
      ELSE IF name = "get_service"
      THEN IF projectMissing
           THEN Payload(<< "Error: Project ID must be provided." >>)
           ELSE IF ~IsString(call.service)
           THEN Payload(<< "Error: Service name must be provided." >>)
           ELSE AwaitBackend
      ELSE IF name \in { "get_logs", "get_log_resource_types" }
      THEN IF projectMissing
           THEN Payload(<< "Error: Project ID must be provided." >>)
           ELSE AwaitBackend
      ELSE IF name = "deploy_local_files"
      THEN IF projectMissing
           THEN Escaped(<< "Project must specified, please prompt the user for a valid existing Google Cloud project ID." >>)
           ELSE IF ~call.files.isArray THEN Escaped(<< "Files must specified" >>)
           ELSE IF Len(call.files.items) = 0
           THEN Escaped(<< "No files specified for deployment" >>)
           ELSE AwaitBackend
      ELSE IF name = "deploy_local_folder"
      THEN IF projectMissing
           THEN Escaped(<< "Project must be specified, please prompt the user for a valid existing Google Cloud project ID." >>)
           ELSE IF ~IsString(call.folderPath) \/ Trim(call.folderPath.text) = <<>>
           THEN Escaped(<< "Folder path must be specified and be a non-empty string." >>)
           ELSE AwaitBackend
      ELSE IF name = "deploy_file_contents"
      THEN IF projectMissing
           THEN Escaped(<< "Project must specified, please prompt the user for a valid existing Google Cloud project ID." >>)
           ELSE IF ~call.files.isArray THEN Escaped(<< "Files must be specified" >>)
           ELSE IF Len(call.files.items) = 0
           THEN Escaped(IF call.remote THEN << "Files must be specified" >>
                        ELSE << "No files specified for deployment" >>)
           ELSE IF missing # 0
           THEN Escaped(<< "File " >> \o call.files.items[missing].filename
                        \o << " must have content" >>)
           ELSE AwaitBackend
      ELSE AwaitBackend   \* list_projects, get_service_log

\* The backend call rejected with `message`: the catch branch of the handler
ToolCatch(call, message) ==
  LET name == call.name[1]
      where == << " in project " >> \o ProjectOf(call) \o << " (region " >>
               \o (IF call.remote /\ name # "get_service_log"
                   THEN CurrentRegion ELSE Shown(call.region))
               \o << "): " >>
  IN  Payload(
        IF name = "list_projects" THEN << "Error listing GCP projects: " >> \o message
        ELSE IF name = "create_project"
        THEN << "Error creating GCP project or attaching billing: " >> \o message
        ELSE IF name = "list_services"
        THEN << "Error listing services for project " >> \o ProjectOf(call)
             \o << " (region " >>
             \o (IF call.remote THEN CurrentRegion ELSE Shown(call.region))
             \o << "): " >> \o message
        ELSE IF name = "get_service"
        THEN << "Error getting service " >> \o Shown(call.service) \o where \o message
        ELSE IF name = "get_service_log"
        THEN << "Error getting Logs for service " >> \o Shown(call.service)
             \o << " in project " >>
             \o Shown(IF call.remote THEN RemoteLogProject(call) ELSE call.project)
             \o << " (region " >>
             \o Shown(call.region) \o << "): " >> \o message
        ELSE IF name = "get_logs"
        THEN << "Error getting logs for project " >> \o ProjectOf(call) \o << ": " >>
             \o message
        ELSE IF name = "get_log_resource_types"
        THEN << "Error getting resource types for project " >> \o ProjectOf(call)
             \o << ": " >> \o message
        ELSE IF name = "deploy_local_folder"
        THEN << "Error deploying folder to Cloud Run: " >> \o message
        ELSE << "Error deploying to Cloud Run: " >> \o message)

\* The backend call resolved: the rest of the try block.  `found` is whether
\* getService gave a service.  The success text of create_project reads
\* newProjectId, which is declared nowhere: a ReferenceError inside the try.
ToolTry(call, found) ==
  LET name == call.name[1]
  IN  IF name = "list_projects"
      THEN Payload(<< "Available GCP Projects:\n", "- proj-a\n- proj-b" >>)
      ELSE IF name = "create_project"
      THEN ToolCatch(call, << "newProjectId is not defined" >>)
      ELSE IF name = "list_services"
      THEN Payload(<< "Services in project " >> \o ProjectOf(call) \o << " (location " >>
                   \o Shown(call.region) \o << "):\n", "- hello (URL: https://hello.run.app)" >>)
      ELSE IF name = "get_service"
      THEN IF found
           THEN Payload(<< "Name: " >> \o Shown(call.service) \o << "\nRegion: " >>
                        \o Shown(call.region) \o << "\nProject: " >> \o ProjectOf(call)
                        \o << "\nURL: ", "https://hello.run.app",
                              "\nLast deployed by: ", "dev@example.com" >>)
           ELSE Payload(<< "Service " >> \o Shown(call.service) \o << " not found in project " >>
                        \o ProjectOf(call) \o << " (region " >>
                        \o (IF call.remote THEN CurrentRegion ELSE Shown(call.region))
                        \o << ")." >>)
      ELSE IF name = "get_service_log"
      THEN Payload(<< "p1.1", "\n", "p1.2" >>)
      ELSE IF name = "get_logs"
      THEN Payload(<< "Logs for project " >> \o ProjectOf(call)
                   \o << ":\n", "Found ", "0", " entries\n\n", "No logs found." >>)
      ELSE IF name = "get_log_resource_types"
      THEN Payload(<< "Available resource types for logging in project " >>
                   \o ProjectOf(call) \o << ":\n", "- cloud_run_revision\n- global" >>)
      ELSE IF name = "deploy_local_folder"
      THEN Payload(<< "Cloud Run service " >> \o Shown(call.service)
                   \o << " deployed from folder " >> \o Shown(call.folderPath)
                   \o << " in project " >> \o ProjectOf(call) \o Console(call)
                   \o << "\nService URL: ", "https://hello.run.app" >>)
      ELSE Payload(<< "Cloud Run service " >> \o Shown(call.service)
                   \o << " deployed in project " >> \o ProjectOf(call) \o Console(call)
                   \o << "\nService URL: ", "https://hello.run.app" >>)

\* Sample files: with content, with content undefined, with content ''
SampleFiles ==
  { [filename |-> << "index.js" >>, content |-> JsString(<< "console.log(1)" >>)],
    [filename |-> << "empty.txt" >>, content |-> JsString(<<>>)],
    [filename |-> << "missing.txt" >>, content |-> JsUndefined] }

MaxFiles == 2

ToolCalls ==
  { c \in [name : Ranges(REGISTER_LOCAL),
           remote : BOOLEAN,
           project : { JsString(<< "proj-a" >>), JsUndefined },
           region : { JsString(<< "europe-west1" >>) },
           service : { JsString(<< "hello" >>), JsUndefined },
           files : { NotAnArray } \cup { Files(items) : items \in SeqsUpTo(SampleFiles, MaxFiles) },
           folderPath : { JsUndefined, JsString(<< " " >>), JsString(<< "/srv/app" >>) },
           projectId : { JsUndefined, JsNumber(<< "42" >>), JsString(<< " " >>),
                         JsString(<< "new-proj" >>) }] :
      c.remote => c.name \in Ranges(REGISTER_REMOTE) }

InitTools ==
  /\ FilterIdle
  /\ ServerIdle
  /\ FetchIdle
  /\ LogsIdle
  /\ ToolsIdle
  /\ FormatIdle
  /\ EntryIdle

\* The registration layer calls a handler with the arguments of the request
InvokeTool ==
  /\ toolPc = "idle"
  /\ toolCall' \in ToolCalls
  /\ LET r == ToolValidate(toolCall')
     IN  IF r.kind = "await"
         THEN /\ toolPc' = "awaiting"
              /\ toolResult' = NoToolResult
              /\ backendTarget' = BackendTarget(toolCall')
         ELSE /\ toolPc' = "done"
              /\ toolResult' = r
              /\ backendTarget' = NoBackendCall
  /\ UNCHANGED outsideTools

\* The backend call resolves and the handler finishes its try block
ToolBackendResolves ==
  /\ toolPc = "awaiting"
  /\ \E found \in BOOLEAN : toolResult' = ToolTry(toolCall, found)
  /\ toolPc' = "done"
  /\ UNCHANGED << toolCall, backendTarget >>
  /\ UNCHANGED outsideTools

\* The backend call rejects and the handler's catch branch runs
ToolBackendRejects ==
  /\ toolPc = "awaiting"
  /\ \E message \in BackendErrors : toolResult' = ToolCatch(toolCall, << message >>)
  /\ toolPc' = "done"
  /\ UNCHANGED << toolCall, backendTarget >>
  /\ UNCHANGED outsideTools

\* The registration layer has the outcome; the next request may come
ToolDone ==
  /\ toolPc = "done"
  /\ toolCall' = NoToolCall
  /\ toolPc' = "idle"
  /\ toolResult' = NoToolResult
  /\ backendTarget' = NoBackendCall
  /\ UNCHANGED outsideTools

NextTools == InvokeTool \/ ToolBackendResolves \/ ToolBackendRejects \/ ToolDone

SpecTools == InitTools /\ [][NextTools]_vars

---------------------------------------------------------------------------
(* formatLogsForDisplay and formatLogsAsTable                              *)
(* The strings whose length the table counts (timestamp, severity,         *)
(* resourceType, logData) are texts of one-character atoms.  Of a          *)
(* normalized entry the fields the three renderings read are kept, and     *)
(* structuredData; resourceLabels, labels, insertId and logName are not.   *)

\* An array of entries, null, undefined
EntryList(items) == [kind |-> "array", items |-> items]
NullEntries == [kind |-> "null", items |-> <<>>]

\* httpRequest of a normalized entry: null, or method, status and url
NoHttp == [isNull |-> TRUE, method |-> <<>>, status |-> <<>>, url |-> <<>>]

\* n copies of the character c
Repeat(c, n) == [i \in 1..n |-> c]

\* String.prototype.substring(from, to) for 0 <= from <= to
Substring(t, from, to) == SubSeq(t, from + 1, Min(to, Len(t)))

\* String.prototype.padEnd(width)
PadEnd(t, width) == IF Len(t) >= width THEN t ELSE t \o Repeat(" ", width - Len(t))

\* Math.max of a non-empty set of numbers
MaxOf(S) == CHOOSE m \in S : \A x \in S : x <= m

NoLogsFound == << "No logs found." >>

Headers ==
  << << "T", "i", "m", "e", "s", "t", "a", "m", "p" >>,
     << "S", "e", "v", "e", "r", "i", "t", "y" >>,
     << "R", "e", "s", "o", "u", "r", "c", "e" >>,
     << "M", "e", "s", "s", "a", "g", "e" >> >>

\* A slip in the message cell: the ellipsis replaces the last three of the
\* hundred characters
MessageCellWithin(logData) ==
  IF Len(logData) > 100 THEN Substring(logData, 0, 97) \o << ".", ".", "." >>
  ELSE logData

\* entry.logData.substring(0, 100) + (entry.logData.length > 100 ? '...' : '')
MessageCell(logData) ==
  Substring(logData, 0, 100)
  \o (IF Len(logData) > 100 THEN << ".", ".", "." >> ELSE <<>>)

\* rows: the four cells of every entry
TableRows(entries) ==
  [r \in 1..Len(entries) |->
     << Substring(entries[r].timestamp, 0, 19),
        entries[r].severity,
        entries[r].resourceType,
        MessageCell(entries[r].logData) >>]

\* A slip in the widths: the headers are left out of the maximum
ColWidthsOfCells(rows) ==
  [i \in 1..4 |-> MaxOf({ Len(rows[r][i]) : r \in 1..Len(rows) })]

\* colWidths: Math.max(header.length, ...rows.map(row => row[i].length))
ColWidths(rows) ==
  [i \in 1..4 |->
     MaxOf({ Len(Headers[i]) } \cup { Len(rows[r][i]) : r \in 1..Len(rows) })]

\* The header row, the separator and the data rows, joined with newlines
TableText(rows, colWidths) ==
  LET headerRow == Join([i \in 1..4 |-> PadEnd(Headers[i], colWidths[i])],
                        << " ", "|", " " >>)
      separator == Join([i \in 1..4 |-> Repeat("-", colWidths[i])],
                        << "-", "+", "-" >>)
      dataRows == [r \in 1..Len(rows) |->
                     Join([i \in 1..4 |-> PadEnd(rows[r][i], colWidths[i])],
                          << " ", "|", " " >>)]
  IN  Join(<< headerRow, separator >> \o dataRows, << "\n" >>)

\* formatLogsAsTable(logEntries)
FormatLogsAsTable(entries) ==
  IF Len(entries) = 0 THEN NoLogsFound
  ELSE TableText(TableRows(entries), ColWidths(TableRows(entries)))

\* The default rendering: one line per entry
TextLine(entry) ==
  << "[" >> \o entry.timestamp \o << "] [" >> \o entry.severity \o << "]" >>
  \o (IF entry.resourceType = << "u", "n", "k", "n", "o", "w", "n" >> THEN <<>>
      ELSE << " [" >> \o entry.resourceType \o << "]" >>)
  \o (IF entry.httpRequest.isNull THEN <<>>
      ELSE << " " >> \o entry.httpRequest.method \o << " " >>
           \o entry.httpRequest.status \o << " " >> \o entry.httpRequest.url)
  \o << " " >> \o entry.logData

\* JSON.stringify(value, null, 2) of a string without characters to escape
JsonString(t) == << "\"" >> \o t \o << "\"" >>

\* ... of a value of an object: a string, or a number or the like as it reads
JsonValue(v) == IF v.type = "string" THEN JsonString(v.text) ELSE v.text

\* ... of an object given as its keys and rendered values, at an indentation
JsonObject(pairs, indent) ==
  IF Len(pairs) = 0 THEN << "{}" >>
  ELSE << "{\n" >>
       \o Join([k \in 1..Len(pairs) |->
                  Repeat(" ", indent + 2) \o JsonString(pairs[k][1]) \o << ": " >>
                  \o pairs[k][2]],
               << ",\n" >>)
       \o << "\n" >> \o Repeat(" ", indent) \o << "}" >>

\* ... of a normalized entry inside the array
JsonEntry(entry) ==
  JsonObject(
    << << << "timestamp" >>, JsonString(entry.timestamp) >>,
       << << "severity" >>, JsonString(entry.severity) >>,
       << << "resourceType" >>, JsonString(entry.resourceType) >>,
       << << "httpRequest" >>,
          IF entry.httpRequest.isNull THEN << "null" >>
          ELSE JsonObject(<< << << "method" >>, JsonString(entry.httpRequest.method) >>,
                             << << "url" >>, JsonString(entry.httpRequest.url) >>,
                             << << "status" >>, entry.httpRequest.status >> >>, 4) >>,
       << << "logData" >>, JsonString(entry.logData) >>,
       << << "structuredData" >>,
          IF entry.structuredData.isNull THEN << "null" >>
          ELSE JsonObject([k \in 1..Len(entry.structuredData.items) |->
                             << entry.structuredData.items[k][1],
                                JsonValue(entry.structuredData.items[k][2]) >>], 4) >> >>,
    2)

\* ... of the array of entries
JsonEntries(entries) ==
  << "[\n" >>
  \o Join([r \in 1..Len(entries) |-> << " ", " " >> \o JsonEntry(entries[r])], << ",\n" >>)
  \o << "\n]" >>

\* The rendering the format selects, of a non-empty list
Render(entries, fmt) ==
  IF fmt = << "json" >> THEN JsonEntries(entries)
  ELSE IF fmt = << "table" >> THEN FormatLogsAsTable(entries)
  ELSE Join([r \in 1..Len(entries) |-> TextLine(entries[r])], << "\n" >>)

\* format = 'text' when the argument is undefined
FormatOf(fmt) == IF fmt.present THEN fmt.text ELSE << "text" >>

\* A slip in formatLogsForDisplay: the format is looked at before the list
FormatLogsForDisplayFormatFirst(list, fmt) ==
  IF list.kind = "array" /\ FormatOf(fmt) = << "json" >>
  THEN IF Len(list.items) = 0 THEN << "[]" >> ELSE JsonEntries(list.items)
  ELSE IF list.kind # "array" \/ Len(list.items) = 0 THEN NoLogsFound
  ELSE Render(list.items, FormatOf(fmt))

\* formatLogsForDisplay(logEntries, format)
FormatLogsForDisplay(list, fmt) ==
  IF list.kind # "array" \/ Len(list.items) = 0 THEN NoLogsFound
  ELSE Render(list.items, FormatOf(fmt))

\* Sample texts: a timestamp as formatLogEntry gives it, names, messages
IsoSample ==
  << "2", "0", "2", "6", "-", "1", "1", "-", "0", "6", "T",
     "0", "8", ":", "0", "4", ":", "0", "5", ".", "1", "2", "3", "Z" >>
NotAvailable == << "N", "/", "A" >>
ErrorName == << "E", "R", "R", "O", "R" >>
DefaultName == << "D", "E", "F", "A", "U", "L", "T" >>
UnknownName == << "u", "n", "k", "n", "o", "w", "n" >>
RevisionName == << "c", "l", "o", "u", "d", "_", "r", "u", "n", "_",
                   "r", "e", "v", "i", "s", "i", "o", "n" >>

\* Normalized entries to render: messages of 0, 2, 100, 101 and 130
\* characters, with and without a timestamp, a resource and a request
SampleEntries ==
  { [timestamp |-> IsoSample, severity |-> ErrorName, resourceType |-> RevisionName,
     httpRequest |-> NoHttp, logData |-> << "o", "k" >>, structuredData |-> Null],
    [timestamp |-> IsoSample, severity |-> DefaultName, resourceType |-> UnknownName,
     httpRequest |-> [isNull |-> FALSE, method |-> << "GET" >>, status |-> << "200" >>,
                      url |-> << "/healthz" >>],
     logData |-> <<>>, structuredData |-> Null],
    [timestamp |-> NotAvailable, severity |-> DefaultName, resourceType |-> UnknownName,
     httpRequest |-> NoHttp, logData |-> Repeat("x", 100), structuredData |-> Null],
    [timestamp |-> IsoSample, severity |-> ErrorName, resourceType |-> UnknownName,
     httpRequest |-> NoHttp, logData |-> Repeat("y", 101), structuredData |-> Null],
    [timestamp |-> NotAvailable, severity |-> ErrorName, resourceType |-> RevisionName,
     httpRequest |-> NoHttp, logData |-> Repeat("z", 130),
     structuredData |-> Arr(<< << << "msg" >>, JsString(<< "z" >>) >> >>)] }

MaxShown == 2

Formats == { Absent, Opt(<< "text" >>), Opt(<< "json" >>), Opt(<< "table" >>),
             Opt(<< "yaml" >>), Opt(<<>>) }

InitFormat ==
  /\ FilterIdle
  /\ ServerIdle
  /\ FetchIdle
  /\ LogsIdle
  /\ ToolsIdle
  /\ EntryIdle
  /\ logEntries \in { NoEntries, NullEntries }
                     \cup { EntryList(items) : items \in SeqsUpTo(SampleEntries, MaxShown) }
  /\ format \in Formats
  /\ table = NoTable
  /\ display = NotDisplayed

\* formatLogsForDisplay(logEntries, format) runs and returns its string
CallFormatLogsForDisplay ==
  /\ ~display.returned
  /\ display' = [returned |-> TRUE, text |-> FormatLogsForDisplay(logEntries, format)]
  /\ table' = IF logEntries.kind = "array" /\ Len(logEntries.items) > 0
                 /\ FormatOf(format) = << "table" >>
              THEN [built |-> TRUE, rows |-> TableRows(logEntries.items),
                    colWidths |-> ColWidths(TableRows(logEntries.items))]
              ELSE NoTable
  /\ UNCHANGED << logEntries, format >>
  /\ UNCHANGED outsideFormat

NextFormat == CallFormatLogsForDisplay

SpecFormat == InitFormat /\ [][NextFormat]_vars

---------------------------------------------------------------------------
(* formatLogEntry                                                          *)
(* A raw record has metadata and data.  data is undefined, null, a string, *)
(* a number or an object; an object is its keys and values in order, a     *)
(* value being a string, a number or a Buffer.  A protobuf payload is an   *)
(* object whose key `value` holds a Buffer.  logData is built here from    *)
(* whole pieces, not character by character.                               *)

JsBuffer(bytes) == [type |-> "buffer", text |-> bytes]

NoData == [type |-> "undefined", text |-> <<>>, fields |-> <<>>]
NullData == [type |-> "null", text |-> <<>>, fields |-> <<>>]
StringData(t) == [type |-> "string", text |-> t, fields |-> <<>>]
NumberData(t) == [type |-> "number", text |-> t, fields |-> <<>>]
ObjectData(fields) == [type |-> "object", text |-> <<>>, fields |-> fields]

\* A value in a condition
TruthyValue(v) ==
  IF v.type = "undefined" \/ v.type = "null" THEN FALSE
  ELSE IF v.type = "string" THEN Len(v.text) > 0
  ELSE IF v.type = "number" THEN v.text # << "0" >>
  ELSE TRUE

\* entry.data.value: the value of the key `value`, undefined where there is
\* none (a string or a number has no such property)
ValueOf(data) ==
  LET at == { k \in 1..Len(data.fields) : data.fields[k][1] = << "value" >> }
  IN  IF data.type # "object" \/ at = {} THEN JsUndefined
      ELSE data.fields[CHOOSE k \in at : \A j \in at : j <= k][2]

\* The bytes of an audit log that decodes
AuditBytes == << "0a", "0c", "53", "65", "74" >>

\* lookupType('google.cloud.audit.AuditLog').decode(value): the message, or
\* an exception for bytes that are no audit log and for what is no buffer
DecodeAuditLog(v) ==
  IF v.type = "buffer" /\ v.text = AuditBytes
  THEN [ok |-> TRUE, methodName |-> << "SetIamPolicy" >>, message |-> <<>>,
        principalEmail |-> << "dev@example.com" >>]
  ELSE [ok |-> FALSE, methodName |-> <<>>, message |-> <<>>, principalEmail |-> <<>>]

\* JSON.stringify(entry.data, null, 2) of an object or null
JsonData(data) ==
  IF data.type = "null" THEN << "null" >>
  ELSE JsonObject([k \in 1..Len(data.fields) |->
                     << data.fields[k][1],
                        IF data.fields[k][2].type = "buffer"
                        THEN << "{\n    \"type\": \"Buffer\",\n    \"data\": [...]\n  }" >>
                        ELSE JsonValue(data.fields[k][2]) >>], 0)

\* logData and structuredData of a formatted entry
Extracted(threw, logData, structuredData) ==
  [threw |-> threw, logData |-> logData, structuredData |-> structuredData]

\* A slip in formatLogEntry: the decoding stands outside any try
ExtractLogDataNoCatch(data) ==
  IF TruthyValue(data) /\ TruthyValue(ValueOf(data))
  THEN LET value == DecodeAuditLog(ValueOf(data))
       IN  IF value.ok
           THEN Extracted(FALSE,
                  value.methodName \o << ": " >> \o value.message \o value.principalEmail,
                  Arr(<< << << "methodName" >>, JsString(value.methodName) >>,
                         << << "principalEmail" >>, JsString(value.principalEmail) >> >>))
           ELSE Extracted(TRUE, <<>>, Null)
  ELSE IF data.type \in { "object", "null" }
  THEN Extracted(FALSE, JsonData(data),
                 IF data.type = "null" THEN Null ELSE Arr(data.fields))
  ELSE IF TruthyValue(data) THEN Extracted(FALSE, data.text, Null)
  ELSE Extracted(FALSE, <<>>, Null)

\* The part of formatLogEntry that extracts the log data: protobuf data when
\* entry.data.value is truthy (a failed decoding is caught), structured data
\* when typeof entry.data is 'object', which null is too, text otherwise
ExtractLogData(data) ==
  IF TruthyValue(data) /\ TruthyValue(ValueOf(data))
  THEN LET value == DecodeAuditLog(ValueOf(data))
       IN  IF value.ok
           THEN Extracted(FALSE,
                  value.methodName \o << ": " >> \o value.message \o value.principalEmail,
                  Arr(<< << << "methodName" >>, JsString(value.methodName) >>,
                         << << "principalEmail" >>, JsString(value.principalEmail) >> >>))
           ELSE Extracted(FALSE, << "[Binary/Protobuf data]" >>, Null)
  ELSE IF data.type \in { "object", "null" }
  THEN Extracted(FALSE, JsonData(data),
                 IF data.type = "null" THEN Null ELSE Arr(data.fields))
  ELSE IF TruthyValue(data) THEN Extracted(FALSE, data.text, Null)
  ELSE Extracted(FALSE, <<>>, Null)

\* metadata of a raw record without anything, and as the backend fills it
BareMetadata ==
  [timestamp |-> [present |-> FALSE, at |-> Epoch], severity |-> Absent,
   resourceType |-> Absent, httpRequest |-> NoHttp]
FullMetadata ==
  [timestamp |-> [present |-> TRUE, at |-> [day |-> 20763, ms |-> 29045123]],
   severity |-> Opt(ErrorName), resourceType |-> Opt(RevisionName),
   httpRequest |-> [isNull |-> FALSE, method |-> << "GET" >>, status |-> << "200" >>,
                    url |-> << "/healthz" >>]]

\* formatLogEntry(entry): the normalized entry, and whether an exception
\* left the function instead
FormatLogEntry(entry) ==
  LET meta == entry.metadata
      extracted == ExtractLogData(entry.data)
  IN  [threw |-> extracted.threw,
       entry |->
         [timestamp |-> IF meta.timestamp.present THEN ToISOString(meta.timestamp.at)
                        ELSE NotAvailable,
          severity |-> IF Truthy(meta.severity) THEN meta.severity.text ELSE DefaultName,
          resourceType |-> IF Truthy(meta.resourceType) THEN meta.resourceType.text
                           ELSE UnknownName,
          httpRequest |-> meta.httpRequest,
          logData |-> extracted.logData,
          structuredData |-> extracted.structuredData]]

\* Payloads of sample records
SampleData ==
  { NoData, NullData, StringData(<<>>), StringData(<< "plain text" >>),
    NumberData(<< "42" >>),
    ObjectData(<<>>),
    ObjectData(<< << << "msg" >>, JsString(<< "started" >>) >>,
                  << << "code" >>, JsNumber(<< "7" >>) >> >>),
    ObjectData(<< << << "value" >>, JsString(<< "x" >>) >> >>),
    ObjectData(<< << << "msg" >>, JsString(<< "started" >>) >>,
                  << << "value" >>, JsNumber(<< "42" >>) >> >>),
    ObjectData(<< << << "value" >>, JsString(<<>>) >> >>),
    ObjectData(<< << << "type_url" >>, JsString(<< "type.googleapis.com/google.cloud.audit.AuditLog" >>) >>,
                  << << "value" >>, JsBuffer(AuditBytes) >> >>),
    ObjectData(<< << << "type_url" >>, JsString(<< "type.googleapis.com/google.cloud.audit.AuditLog" >>) >>,
                  << << "value" >>, JsBuffer(<< "ff", "ff" >>) >> >>),
    ObjectData(<< << << "type_url" >>, JsString(<< "type.googleapis.com/other.Message" >>) >>,
                  << << "value" >>, JsBuffer(<<>>) >> >>) }

RawRecords == [metadata : { BareMetadata, FullMetadata }, data : SampleData]

MaxRaw == 2

InitEntry ==
  /\ FilterIdle
  /\ ServerIdle
  /\ FetchIdle
  /\ LogsIdle
  /\ ToolsIdle
  /\ FormatIdle
  /\ rawEntries \in SeqsUpTo(RawRecords, MaxRaw)
  /\ formattedLogs = NotMapped

\* const formattedLogs = entries.map(entry => formatLogEntry(entry)): an
\* exception of one call ends the map
MapFormatLogEntry ==
  /\ formattedLogs = NotMapped
  /\ LET results == [i \in 1..Len(rawEntries) |-> FormatLogEntry(rawEntries[i])]
     IN  formattedLogs' =
           IF \E i \in 1..Len(results) : results[i].threw
           THEN [kind |-> "threw", logs |-> <<>>]
           ELSE [kind |-> "mapped", logs |-> [i \in 1..Len(results) |-> results[i].entry]]
  /\ UNCHANGED rawEntries
  /\ UNCHANGED outsideEntry

NextEntry == MapFormatLogEntry

SpecEntry == InitEntry /\ [][NextEntry]_vars

---------------------------------------------------------------------------
(* Properties of the tool filter and of the start-up                       *)

AsSet(list) == Ranges(list.items)

\* The names of a list that are outside the catalog of the mode
Offending(list, remote) == AsSet(list) \ Ranges(AvailableTools(remote))

\* C1: once createToolFilter has returned a predicate, the predicate answers
\* for a name n: n is in enabledTools when enabledTools is non-empty;
\* otherwise n is not in disabledTools when disabledTools is non-empty;
\* otherwise true.
C1_PredicateDecision ==
  asked.done =>
    asked.answer =
      (IF AsSet(enabledTools) # {} THEN asked.toolName \in AsSet(enabledTools)
       ELSE IF AsSet(disabledTools) # {} THEN asked.toolName \notin AsSet(disabledTools)
       ELSE TRUE)

\* C1, its case: a deny list alone turns a listed name down
C1_Witness ==
  /\ asked.done
  /\ AsSet(enabledTools) = {}
  /\ asked.toolName \in AsSet(disabledTools)
  /\ ~asked.answer

\* C2: when a name of enabledTools or of disabledTools is outside the catalog
\* of the mode, createToolFilter fails and the text of its error contains
\* every offending name of both lists and the whole catalog of the mode.
C2_ErrorNamesEveryOffendingName ==
  (toolFilter.state # "unset"
     /\ Offending(enabledTools, isRemote) \cup Offending(disabledTools, isRemote) # {})
    => /\ toolFilter.state = "threw"
       /\ \A n \in Offending(enabledTools, isRemote) \cup Offending(disabledTools, isRemote) :
            Contains(toolFilter.message, n)
       /\ \A i \in 1..Len(AvailableTools(isRemote)) :
            Contains(toolFilter.message, AvailableTools(isRemote)[i])

\* A text holds a token: an atom that is neither a comma nor a blank
HasToken(opt) == opt.present /\ \E i \in 1..Len(opt.text) : opt.text[i] \notin {",", " "}

\* C3: when the values of both options hold at least one token, parseCliArgs
\* throws an error whose message names --enabled-tools and --disabled-tools,
\* and returns no configuration (getServer then exits with status 1).
C3_BothListsRefused ==
  (cliConfig.state # "unset" /\ HasToken(argv.enabled) /\ HasToken(argv.disabled))
    => /\ cliConfig.state = "threw"
       /\ Contains(cliConfig.message, <<"--enabled-tools">>)
       /\ Contains(cliConfig.message, <<"--disabled-tools">>)
       /\ cliConfig.enabledTools = Null /\ cliConfig.disabledTools = Null
       /\ exitCode = Exited(1)

\* C3, its case: two lists that share no name are refused
C3_Witness ==
  /\ cliConfig.state = "threw"
  /\ argv.enabled = Opt(<< "list_services" >>)
  /\ argv.disabled = Opt(<< "get_logs" >>)
  /\ exitCode = Exited(1)

\* C4: a configuration error (conflicting flags, or an unknown tool name) ends
\* the process with a non-zero status before any tool is registered and
\* before any client request is accepted, in stdio mode and in HTTP mode.
C4_ConfigErrorFatalAtStartup ==
  (exitCode = Exited(1) /\ (cliConfig.state = "threw" \/ toolFilter.state = "threw"))
    => /\ accepted = 0
       /\ registered = {}

\* The names the README lists for a mode
ReadmeNames(remote) == Ranges(IF remote THEN README_REMOTE ELSE README_LOCAL)

\* C5: lists made only of names the README gives for the mode are accepted
\* by createToolFilter, in --enabled-tools and in --disabled-tools.
C5_ReadmeNamesAccepted ==
  (toolFilter.state # "unset"
     /\ AsSet(enabledTools) \subseteq ReadmeNames(isRemote)
     /\ AsSet(disabledTools) \subseteq ReadmeNames(isRemote))
    => toolFilter.state = "ready"

---------------------------------------------------------------------------
(* Properties of the exhaustive fetch                                      *)

\* The lines of pages i..Len(pages), in page order
RECURSIVE LinesFrom(_, _)
LinesFrom(pages, i) ==
  IF i > Len(pages) THEN <<>>
  ELSE [j \in 1..pages[i] |-> LogLine(i, j)] \o LinesFrom(pages, i + 1)

\* C6: with a backend of k pages the loop issues exactly k calls, the first
\* without request options and each later one with the options the response
\* before it returned, and returns the lines of all pages in page order.
C6_ExhaustiveFetch ==
  /\ \A i \in 1..Len(calls) :
       IF i = 1 THEN calls[i] = Undefined
       ELSE /\ i - 1 <= Len(responses)
            /\ calls[i].defined
            /\ calls[i] = responses[i - 1].requestOptions
  /\ (fetchPc = "returned" /\ fetchResult.kind = "logs")
       => /\ Len(calls) = Len(logPages)
          /\ SelectSeq(fetchResult.text, LAMBDA a : a # "\n") = LinesFrom(logPages, 1)

\* C6, its case: three pages of 2, 2 and 1 lines were fetched and returned
C6_Witness ==
  /\ fetchPc = "returned"
  /\ fetchResult.kind = "logs"
  /\ logPages = <<2, 2, 1>>
  /\ Len(calls) = 3

\* C7: when the j-th call fails no further call is issued, the payload names
\* the project, the region and the service, and no line of the pages fetched
\* before is in it.
C7_FailureDiscardsPages ==
  (fetchPc = "returned" /\ fetchResult.kind = "error")
    => /\ Len(calls) = Len(responses) + 1
       /\ Contains(fetchResult.text, << logArgs.project >>)
       /\ Contains(fetchResult.text, << logArgs.region >>)
       /\ Contains(fetchResult.text, << logArgs.service >>)
       /\ \A i \in 1..Len(responses) : \A j \in 1..logPages[i] :
            ~Contains(fetchResult.text, << LogLine(i, j) >>)

\* C7, its case: the third call failed after two pages with lines were fetched
C7_Witness ==
  /\ fetchPc = "returned"
  /\ fetchResult.kind = "error"
  /\ Len(responses) = 2
  /\ Len(allLogs) = 2

\* The pages received so far that hold lines, in the order received
PagesReceived(rs) == SelectSeq([i \in 1..Len(rs) |-> rs[i].logs], LAMBDA t : t # <<>>)

\* C13: in one call of the handler at most one backend call is in flight at
\* any time, and the call for page i+1 is issued only after the response for
\* page i has been received and its logs appended to the accumulator.
C13_OneCallInFlight ==
  /\ [](/\ Len(calls) <= Len(responses) + 1
        /\ fetchPc = "awaiting" => Len(calls) = Len(responses) + 1
        /\ fetchPc = "idle" => calls = <<>>)
  /\ [][Len(calls') > Len(calls)
          => /\ Len(calls') = Len(calls) + 1
             /\ Len(responses') = Len(calls)
             /\ allLogs' = PagesReceived(responses')]_vars

\* C13, its case: the call for page 3 is in flight, pages 1 and 2 are appended
C13_Witness ==
  /\ fetchPc = "awaiting"
  /\ Len(calls) = 3
  /\ Len(responses) = 2
  /\ Len(allLogs) = 2

---------------------------------------------------------------------------
(* Properties of getLogs and buildTimeRangeFilter                          *)

\* An option the caller supplied: present and not the empty string
Supplied(o) == o.present /\ o.text # <<>>

\* The call is past the building of the filter
PastFilter == logsPc \in { "awaiting", "returned", "threw" }

\* The call is over
LogsOver == logsPc \in { "returned", "threw" }

\* The one request of a call carries what the caller asked for
OneCallAsAsked ==
  /\ Len(getEntriesCalls) = 1
  /\ LET r == getEntriesCalls[1]
         limit == IF options.limit.present THEN options.limit.n ELSE 100
     IN  /\ filterQuery.built
         /\ r.filter = filterQuery.text
         /\ r.orderBy = (IF options.orderBy.present THEN options.orderBy.text
                         ELSE << "timestamp desc" >>)
         /\ r.pageSize <= 1000
         /\ r.pageSize <= limit
         /\ r.pageSize = limit \/ r.pageSize = 1000
         /\ r.pageToken.present <=> Supplied(options.pageToken)
         /\ r.pageToken.present => r.pageToken = options.pageToken

\* C8: every invocation of getLogs issues exactly one backend call, also when
\* that call fails, and never a second one; the request carries the built
\* filter string, the orderBy value, pageSize = min(limit, 1000), and a
\* pageToken if and only if the caller supplied one.
C8_ExactlyOneBackendCall ==
  /\ Len(getEntriesCalls) <= 1
  /\ LogsOver => OneCallAsAsked

\* C8 holds of every call in which buildTimeRangeFilter does not throw
C8_WhenTimeFilterReturns ==
  /\ Len(getEntriesCalls) <= 1
  /\ (LogsOver /\ timeFilter.kind # "threw") => OneCallAsAsked

\* The clauses the options ask for, in the order filter, resourceType,
\* severity, timeRange
ClausesAsked ==
  LET clause == [k \in 1..4 |->
        IF k = 1 THEN << "(" >> \o options.filter.text \o << ")" >>
        ELSE IF k = 2
        THEN << "resource.type=\"" >> \o options.resourceType.text \o << "\"" >>
        ELSE IF k = 3 THEN << "severity>=" >> \o options.severity.text
        ELSE timeFilter.text]
      applies == [k \in 1..4 |->
        IF k = 1 THEN Supplied(options.filter)
        ELSE IF k = 2 THEN Supplied(options.resourceType)
        ELSE IF k = 3
        THEN Supplied(options.severity) /\ options.severity.text # << "DEFAULT" >>
        ELSE Supplied(options.timeRange) /\ Match(options.timeRange.text)]
      RECURSIVE From(_)
      From(k) == IF k > 4 THEN <<>>
                 ELSE (IF applies[k] THEN << clause[k] >> ELSE <<>>) \o From(k + 1)
  IN  From(1)

FilterAsAsked ==
  /\ filterQuery.built
  /\ (Supplied(options.timeRange) /\ Match(options.timeRange.text))
       => /\ timeFilter.kind = "clause"
          /\ Len(timeFilter.text) > 1
          /\ timeFilter.text[1] = "timestamp>=\""
  /\ filterQuery.text = Join(ClausesAsked, << " AND " >>)
  /\ ClausesAsked = <<>> => filterQuery.text = <<>>

\* C9: for every options value the filter string getLogs builds is the join
\* with ' AND ', in the order filter, resourceType, severity, timeRange, of
\* '(<filter>)' iff filter is supplied, 'resource.type="<resourceType>"' iff
\* resourceType is supplied, 'severity>=<severity>' iff severity is supplied
\* and is not DEFAULT, and the time-range clause iff a parseable timeRange is
\* supplied; it is empty when no clause applies.
C9_FilterIsJoinOfSuppliedClauses == PastFilter => FilterAsAsked

\* C9 holds of every call in which buildTimeRangeFilter does not throw
C9_WhenTimeFilterReturns ==
  (PastFilter /\ timeFilter.kind # "threw") => FilterAsAsked

\* The number a run of digits denotes, while it has at most nine digits
RECURSIVE Numeral(_)
Numeral(t) ==
  IF t = <<>> THEN 0
  ELSE 10 * Numeral(SubSeq(t, 1, Len(t) - 1))
       + (CHOOSE v \in 0..9 : ToString(v) = t[Len(t)])

\* The token of the call in progress is '<n><unit>' with n positive
PositiveToken ==
  /\ PastFilter
  /\ Supplied(options.timeRange)
  /\ Match(options.timeRange.text)
  /\ Len(options.timeRange.text) <= 10
  /\ Numeral(SubSeq(options.timeRange.text, 1, Len(options.timeRange.text) - 1)) > 0

\* The clause's bound lies n units before the instant of the call and the
\* clause renders it
LowerBoundExact ==
  LET t == options.timeRange.text
      n == Numeral(SubSeq(t, 1, Len(t) - 1))
      unit == t[Len(t)]
      start == timeFilter.startTime
      dd == now.day - start.day
      dm == now.ms - start.ms
  IN  /\ timeFilter.kind = "clause"
      /\ start.ms \in 0..(MsPerDay - 1)
      /\ IF unit = "d" THEN dm = 0 /\ dd = n
         ELSE IF unit = "h" THEN dm % 3600000 = 0 /\ dd * 24 + dm \div 3600000 = n
         ELSE dm % 60000 = 0 /\ dd * 1440 + dm \div 60000 = n
      /\ timeFilter.text = << "timestamp>=\"" >> \o ToISOString(start) \o << "\"" >>
      /\ Len(timeFilter.text) = 26
      /\ (unit = "h" /\ n = 2 /\ now = [day |-> 20763, ms |-> 29045123])
           => SubSeq(timeFilter.text, 2, 25)
                = << "2", "0", "2", "6", "-", "1", "1", "-", "0", "6", "T",
                     "0", "6", ":", "0", "4", ":", "0", "5", ".", "1", "2", "3", "Z" >>
      /\ (unit = "m" /\ n = 30 /\ now = [day |-> 19783, ms |-> 1200000])
           => SubSeq(timeFilter.text, 2, 25)
                = << "2", "0", "2", "4", "-", "0", "2", "-", "2", "9", "T",
                     "2", "3", ":", "5", "0", ":", "0", "0", ".", "0", "0", "0", "Z" >>

\* C10: for every token '<n><unit>' with n a positive integer and unit h, m
\* or d, parsed at instant T, the lower bound of the clause is exactly
\* T - n*3600000, T - n*60000 or T - n*86400000 milliseconds, rendered as
\* timestamp>="<ISO-8601 UTC of that instant>".
C10_LowerBoundIsExactlyNUnitsBefore == PositiveToken => LowerBoundExact

\* C10 holds of every call in which buildTimeRangeFilter does not throw
C10_WhenTimeFilterReturns ==
  (PositiveToken /\ timeFilter.kind # "threw") => LowerBoundExact

\* C11: for every timeRange token that does not match <digits><h|m|d>,
\* getLogs does not fail: no time clause is built, the backend call is still
\* issued, and the filter string is the one the same options give with
\* timeRange absent; only the backend call itself can make the call fail.
C11_MalformedTimeRangeIsDropped ==
  (PastFilter /\ options.timeRange.present /\ ~Match(options.timeRange.text))
    => LET without == [options EXCEPT !.timeRange = Absent]
           expected == Join(FilterParts(without, TimeFilterOf(without, now)),
                            << " AND " >>)
       IN  /\ timeFilter.kind \in { "null", "notcalled" }
           /\ filterQuery = [built |-> TRUE, text |-> expected]
           /\ Len(getEntriesCalls) = 1
           /\ getEntriesCalls[1].filter = expected
           /\ \A k \in 1..Len(expected) : expected[k] # "timestamp>=\""
           /\ logsPc = "threw" => logsResult = Thrown(<< "backend error" >>)
           /\ logsPc = "returned" => logsResult.query = expected

\* C11, its case: a call with timeRange '5x' and a filter has returned
C11_Witness ==
  /\ logsPc = "returned"
  /\ options.timeRange = Opt(<< "5", "x" >>)
  /\ Supplied(options.filter)
  /\ timeFilter.kind = "null"

---------------------------------------------------------------------------
(* Properties of the shared client                                         *)

\* C12: across every interleaving of concurrent getLogs and getResourceTypes
\* calls the client is constructed at most once and, once assigned, is never
\* replaced.
C12_ClientConstructedOnce ==
  /\ [](Len(constructions) <= 1)
  /\ [][loggingClient.set
          => loggingClient' = loggingClient /\ constructions' = constructions]_vars

---------------------------------------------------------------------------
(* Properties of the tool handlers                                         *)

\* C14: every registered tool handler, for every input and every backend
\* outcome, hands back a payload and never lets an exception escape to the
\* registration layer; a validation error is reported as an error payload.
C14_HandlersNeverThrow ==
  /\ toolResult.kind # "escaped"
  /\ toolPc = "done" => toolResult.kind = "payload"

\* C14 holds of every handler but the three deploy handlers, and of those
\* once their arguments have passed the checks before the try block
C14_ExceptDeployValidation ==
  toolPc = "done"
    => \/ toolResult.kind = "payload"
       \/ /\ toolResult.kind = "escaped"
          /\ toolCall.name[1] \in { "deploy_local_files", "deploy_local_folder",
                                    "deploy_file_contents" }
          /\ ToolValidate(toolCall).kind = "escaped"

---------------------------------------------------------------------------
(* Properties of the renderings                                            *)

\* C15: for every format selector, formatLogsForDisplay of an empty, null or
\* undefined entry list returns exactly 'No logs found.'; the format counts
\* only when the list is non-empty.
C15_EmptyListIsNoLogsFound ==
  (display.returned /\ (logEntries.kind # "array" \/ logEntries.items = <<>>))
    => display.text = << "No logs found." >> /\ ~table.built

\* C15, its case: an empty array was rendered as json
C15_Witness ==
  /\ display.returned
  /\ logEntries = EntryList(<<>>)
  /\ format = Opt(<< "json" >>)

\* The lines of the table that was returned
TableLines == SplitAt(display.text, "\n")

\* Column i of a line of the table: the characters at the column's place
ColumnOf(line, i) ==
  LET RECURSIVE Before(_)
      Before(k) == IF k = 0 THEN 0 ELSE Before(k - 1) + table.colWidths[k] + 3
  IN  SubSeq(line, Before(i - 1) + 1, Before(i - 1) + table.colWidths[i])

\* What stands between column i and column i+1 of a line
GapOf(line, i) ==
  LET RECURSIVE Before(_)
      Before(k) == IF k = 0 THEN 0 ELSE Before(k - 1) + table.colWidths[k] + 3
  IN  SubSeq(line, Before(i) - 2, Before(i))

\* t followed by blanks only, up to the width
PaddedTo(padded, t, width) ==
  /\ Len(padded) = width
  /\ Len(t) <= width
  /\ SubSeq(padded, 1, Len(t)) = t
  /\ \A k \in (Len(t) + 1)..width : padded[k] = " "

\* C16: for every non-empty entry list rendered as a table, each of the four
\* column widths is the maximum of the header's length and the lengths of
\* the cells of that column, every header and cell is padded to that width,
\* and the output is the header row, one separator rule and one data row per
\* entry in input order.
C16_TableLayout ==
  table.built
    => LET n == Len(logEntries.items)
           w == table.colWidths
           lengths(i) == { Len(Headers[i]) } \cup { Len(table.rows[r][i]) : r \in 1..n }
           total == w[1] + w[2] + w[3] + w[4] + 9
       IN  /\ Len(table.rows) = n
           /\ \A i \in 1..4 : w[i] \in lengths(i) /\ \A x \in lengths(i) : x <= w[i]
           /\ \A r \in 1..n :
                /\ table.rows[r][2] = logEntries.items[r].severity
                /\ table.rows[r][3] = logEntries.items[r].resourceType
           /\ Len(TableLines) = n + 2
           /\ \A l \in 1..(n + 2) : Len(TableLines[l]) = total
           /\ \A i \in 1..4 :
                /\ PaddedTo(ColumnOf(TableLines[1], i), Headers[i], w[i])
                /\ ColumnOf(TableLines[2], i) = [k \in 1..w[i] |-> "-"]
                /\ \A r \in 1..n :
                     PaddedTo(ColumnOf(TableLines[r + 2], i), table.rows[r][i], w[i])
           /\ \A i \in 1..3 :
                /\ GapOf(TableLines[2], i) = << "-", "+", "-" >>
                /\ \A l \in { 1 } \cup 3..(n + 2) :
                     GapOf(TableLines[l], i) = << " ", "|", " " >>

\* C16, its case: a table of two entries, one column as wide as its header
\* and one as wide as a cell
C16_Witness ==
  /\ table.built
  /\ display.returned
  /\ Len(logEntries.items) = 2
  /\ logEntries.items[1].severity # logEntries.items[2].severity
  /\ table.colWidths[2] = 8
  /\ table.colWidths[4] = 103

\* C17: in the table the message cell before padding is the entry's logData
\* unchanged when logData has at most 100 characters, and otherwise its first
\* 100 characters followed by '...'.
C17_MessageCellTruncated ==
  table.built
    => \A r \in 1..Len(logEntries.items) :
         LET logData == logEntries.items[r].logData
             cell == table.rows[r][4]
         IN  IF Len(logData) <= 100 THEN cell = logData
             ELSE /\ Len(cell) = 103
                  /\ SubSeq(cell, 1, 100) = SubSeq(logData, 1, 100)
                  /\ SubSeq(cell, 101, 103) = << ".", ".", "." >>

\* C17, its case: a table of a message of 100 and a message of 101 characters
C17_Witness ==
  /\ table.built
  /\ Len(logEntries.items) = 2
  /\ Len(logEntries.items[1].logData) = 100
  /\ Len(logEntries.items[2].logData) = 101

\* C18: in the table the timestamp cell of every normalized entry, those
\* with the 'N/A' placeholder among them, is exactly 19 characters wide
\* before padding.
C18_TimestampCellIs19Wide ==
  table.built => \A r \in 1..Len(table.rows) : Len(table.rows[r][1]) = 19

\* C18 holds of every entry that has a timestamp
C18_WhenTimestampPresent ==
  table.built
    => \A r \in 1..Len(table.rows) :
         logEntries.items[r].timestamp # << "N", "/", "A" >>
           => table.rows[r][1] = SubSeq(logEntries.items[r].timestamp, 1, 19)
              /\ Len(table.rows[r][1]) = 19

---------------------------------------------------------------------------
(* Properties of formatLogEntry                                            *)

\* The record carries protobuf data: an object whose `value` is a Buffer
CarriesBinary(entry) ==
  /\ entry.data.type = "object"
  /\ \E k \in 1..Len(entry.data.fields) :
       /\ entry.data.fields[k][1] = << "value" >>
       /\ entry.data.fields[k][2].type = "buffer"

\* C19: for every raw record with binary/protobuf data whose decoding fails,
\* formatLogEntry returns a normalized entry whose logData is exactly
\* '[Binary/Protobuf data]' and raises no error, so that all entries of the
\* page are returned.
C19_DecodeFailureIsSentinel ==
  (formattedLogs.kind # "none"
     /\ \E i \in 1..Len(rawEntries) :
          CarriesBinary(rawEntries[i]) /\ ~DecodeAuditLog(ValueOf(rawEntries[i].data)).ok)
    => /\ formattedLogs.kind = "mapped"
       /\ Len(formattedLogs.logs) = Len(rawEntries)
       /\ \A i \in 1..Len(rawEntries) :
            (CarriesBinary(rawEntries[i])
               /\ ~DecodeAuditLog(ValueOf(rawEntries[i].data)).ok)
              => /\ formattedLogs.logs[i].logData = << "[Binary/Protobuf data]" >>
                 /\ formattedLogs.logs[i].structuredData.isNull

\* C19, its case: a page of a record that does not decode and a text record
C19_Witness ==
  /\ formattedLogs.kind = "mapped"
  /\ Len(rawEntries) = 2
  /\ CarriesBinary(rawEntries[1])
  /\ rawEntries[1].data.fields[2][2] = JsBuffer(<< "ff", "ff" >>)
  /\ rawEntries[2].data = StringData(<< "plain text" >>)
  /\ formattedLogs.logs[2].logData = << "plain text" >>

\* The payload resolved as the claim says
ResolvedAsStated(data, out) ==
  IF data.type = "object"
  THEN /\ out.structuredData = Arr(data.fields)
       /\ Len(out.logData) > 0
       /\ out.logData[1] \in { "{}", "{\n" }
       /\ \A k \in 1..Len(data.fields) :
            Contains(out.logData, << "\"" >> \o data.fields[k][1] \o << "\"", ": " >>)
  ELSE IF data.type \in { "undefined", "null" }
  THEN out.logData = <<>> /\ out.structuredData.isNull
  ELSE out.logData = data.text /\ out.structuredData.isNull

\* C20: for every raw record without binary/protobuf data, an object-shaped
\* payload, whatever its keys (a key named 'value' among them), is kept as
\* structuredData with logData its pretty-printed serialization, any other
\* present payload is stringified into logData, and an absent payload
\* (undefined or null) gives an empty logData.
C20_PayloadResolution ==
  formattedLogs.kind # "none"
    => /\ formattedLogs.kind = "mapped"
       /\ \A i \in 1..Len(rawEntries) :
            ~CarriesBinary(rawEntries[i])
              => ResolvedAsStated(rawEntries[i].data, formattedLogs.logs[i])

\* C20 holds of every payload but null and the objects with a truthy `value`
C20_ExceptValueKeyAndNull ==
  formattedLogs.kind # "none"
    => /\ formattedLogs.kind = "mapped"
       /\ \A i \in 1..Len(rawEntries) :
            (/\ ~CarriesBinary(rawEntries[i])
             /\ rawEntries[i].data.type # "null"
             /\ ~TruthyValue(ValueOf(rawEntries[i].data)))
              => ResolvedAsStated(rawEntries[i].data, formattedLogs.logs[i])

---------------------------------------------------------------------------
(* Properties of the parsed command line                                   *)

\* The tokens of an option value: what stands between the commas, without the
\* blanks at either end, the empty ones dropped, in the order written
Tokens(opt) == SelectSeq(MapTrim(Split(opt.text)), LAMBDA t : Len(t) > 0)

\* The list the option stands for: null when the option is absent or holds
\* no token
ListOf(opt) ==
  IF ~opt.present \/ Tokens(opt) = <<>> THEN Null ELSE Arr(Tokens(opt))

\* C21: for every option value parseCliArgs returns the tokens of the value
\* (split on commas, trimmed, the empty ones dropped, in their order); the
\* list is null when the option is absent and also when its value holds no
\* token, as ',,' or ' , ' do.
C21_ListIsTokensOrNull ==
  cliConfig.state = "ok"
    => /\ cliConfig.enabledTools = ListOf(argv.enabled)
       /\ cliConfig.disabledTools = ListOf(argv.disabled)

\* C21 holds but for the value that is not empty and holds no token: such a
\* value gives the empty list, not null
C21_ExceptEmptiedList ==
  cliConfig.state = "ok"
    => \A pair \in { <<cliConfig.enabledTools, argv.enabled>>,
                     <<cliConfig.disabledTools, argv.disabled>> } :
         pair[1] = (IF pair[2].present /\ pair[2].text # <<>> /\ Tokens(pair[2]) = <<>>
                    THEN Arr(<<>>)
                    ELSE ListOf(pair[2]))

---------------------------------------------------------------------------
(* Properties of createToolFilter called with two lists                    *)

\* createToolFilter was called with two non-empty lists of names of the mode
BothListsValid ==
  /\ toolFilter.state # "unset"
  /\ NonEmpty(enabledTools) /\ NonEmpty(disabledTools)
  /\ Offending(enabledTools, isRemote) = {}
  /\ Offending(disabledTools, isRemote) = {}

\* C22, as stated: for every pair of non-empty enabled and disabled lists of
\* names valid for the mode, createToolFilter called directly fails with an
\* error naming both flags and returns no predicate.
C22_BothListsFailDirectly ==
  BothListsValid
    => /\ toolFilter.state = "threw"
       /\ Contains(toolFilter.message, <<"--enabled-tools">>)
       /\ Contains(toolFilter.message, <<"--disabled-tools">>)

\* C22, amended: for every such pair createToolFilter called directly does
\* not fail; it returns the predicate over both lists, and the predicate
\* decides by the enabled list alone (the pair is refused by parseCliArgs
\* only).
C22_BothListsGiveEnabledPredicate ==
  BothListsValid
    => /\ toolFilter.state = "ready"
       /\ toolFilter.enabledTools = enabledTools
       /\ toolFilter.disabledTools = disabledTools
       /\ asked.done => asked.answer = (asked.toolName \in AsSet(enabledTools))

\* C22, its case: a name on both lists is registered
C22_Witness ==
  /\ BothListsValid
  /\ asked.done
  /\ asked.toolName \in AsSet(enabledTools) \cap AsSet(disabledTools)
  /\ asked.answer

---------------------------------------------------------------------------
(* Properties of the catalogs                                              *)

\* No element occurs twice in the list
NoDuplicates(list) == \A i, j \in 1..Len(list) : list[i] = list[j] => i = j

\* C23: every name of the remote catalog is a name of the local catalog, at
\* least one local name is not remote, and no name occurs twice within either
\* catalog; so every list createToolFilter accepts in remote mode is made of
\* local names.
C23_RemoteCatalogStrictSubset ==
  /\ Ranges(AvailableTools(TRUE)) \subseteq Ranges(AvailableTools(FALSE))
  /\ Ranges(AvailableTools(TRUE)) # Ranges(AvailableTools(FALSE))
  /\ NoDuplicates(AvailableTools(TRUE))
  /\ NoDuplicates(AvailableTools(FALSE))
  /\ (toolFilter.state = "ready" /\ isRemote)
       => AsSet(enabledTools) \cup AsSet(disabledTools)
            \subseteq Ranges(AvailableTools(FALSE))

\* C23, its case: in remote mode a list of a name of both catalogs and a
\* local-only name is refused for the local-only name alone
C23_Witness ==
  /\ isRemote
  /\ enabledTools = Arr(<< <<"list_services">>, <<"list_projects">> >>)
  /\ toolFilter.state = "threw"
  /\ InvalidIn(enabledTools, TRUE) = << <<"list_projects">> >>
  /\ InvalidIn(enabledTools, FALSE) = <<>>

---------------------------------------------------------------------------
(* Termination of the exhaustive fetch                                     *)

\* C24: once started, the exhaustive fetch runs to completion or failure:
\* when every awaited backend call settles, every invocation eventually
\* returns a payload (the logs or the error text); and the loop has no
\* ceiling of its own, a backend of k pages is asked exactly k times.
C24_FetchRunsToCompletion ==
  /\ (fetchPc = "awaiting")
       ~> (fetchPc = "returned" /\ fetchResult.kind \in { "logs", "error" })
  /\ []((fetchPc = "returned" /\ fetchResult.kind = "logs")
          => Len(calls) = Len(logPages) /\ Len(responses) = Len(logPages))

\* C24, its case: a backend of as many pages as are tried was read to its end
C24_Witness ==
  /\ fetchPc = "returned"
  /\ fetchResult.kind = "logs"
  /\ Len(logPages) >= 3
  /\ Len(responses) = Len(logPages)

---------------------------------------------------------------------------
(* Properties of the registered tools                                      *)

\* The catalog of the mode the tools were registered for
CatalogRegistered ==
  Ranges(AvailableTools(registeredBy = "registerToolsRemote"))

\* what remains of a set of names for the lists of the command line
AfterLists(names) ==
  IF NonEmpty(cliConfig.enabledTools) THEN names \cap AsSet(cliConfig.enabledTools)
  ELSE IF NonEmpty(cliConfig.disabledTools) THEN names \ AsSet(cliConfig.disabledTools)
  ELSE names

\* C25: in a start-up without an enabled and without a disabled list the
\* registered tools are the catalog of the active mode exactly, so every tool
\* that is registered can be named in --disabled-tools; with a deny list the
\* registered tools are the catalog without the names of the deny list.
C25_RegisteredIsCatalog ==
  (registeredBy # "none" /\ ~NonEmpty(cliConfig.enabledTools))
    => registered = AfterLists(CatalogRegistered)

\* The two log query tools, registered in both modes, in neither catalog
LogQueryTools == { <<"get_logs">>, <<"get_log_resource_types">> }

\* C25 holds of every tool but the two log query tools, which are registered
\* whatever the lists say
C25_ExceptLogQueryTools ==
  registeredBy # "none"
    => /\ registered \ LogQueryTools = AfterLists(CatalogRegistered)
       /\ NonEmpty(cliConfig.enabledTools) \/ LogQueryTools \subseteq registered

---------------------------------------------------------------------------
(* Properties of the client a getLogs call goes through                    *)

\* C26: in every sequence of getLogs calls of one process, calls for
\* different projects among them, the backend request of each call is issued
\* through a client configured for the projectId of that call.
C26_ClientIsForOwnProject ==
  \A i \in 1..Len(getEntriesCalls) : getEntriesCalls[i].client = projectId

\* What holds instead: the request goes through the module level client,
\* which is the one the first call constructed
C26_ClientIsTheSharedOne ==
  \A i \in 1..Len(getEntriesCalls) :
    loggingClient.set /\ getEntriesCalls[i].client = loggingClient.projectId

---------------------------------------------------------------------------
(* Properties of buildTimeRangeFilter as getLogs calls it                  *)

\* C27: for every timeRange string, the tokens of digits and a unit with
\* zero, leading zeros or many digits among them, buildTimeRangeFilter
\* returns a timestamp clause or null and never raises, so getLogs fails for
\* no timeRange value: when it throws, the backend request had been issued.
C27_TimeRangeNeverRaises ==
  /\ timeFilter.kind \in { "notcalled", "null", "clause" }
  /\ logsPc = "threw" => Len(getEntriesCalls) = 1

\* C27 holds of every token whose start lies within the range of Date: the
\* function raises only for a matching token that reaches further back
C27_ExceptOutOfRange ==
  /\ timeFilter.kind = "threw"
       => /\ Truthy(options.timeRange)
          /\ Match(options.timeRange.text)
          /\ ~ValidDate(timeFilter.startTime)
          /\ logsPc = "threw" /\ getEntriesCalls = <<>>
  /\ (logsPc = "threw" /\ timeFilter.kind # "threw") => Len(getEntriesCalls) = 1

---------------------------------------------------------------------------
(* Properties of the mode getServer settles on                             *)

\* C28: in every start-up the catalog the lists are validated against is the
\* catalog of the registration path taken: createToolFilter is given the
\* remote catalog exactly when registerToolsRemote registers the tools,
\* whatever GCP_STDIO and the metadata say; the remote path is taken only
\* without GCP_STDIO and with metadata naming a project.
C28_CatalogMatchesRegistration ==
  (toolFilter.state = "ready" /\ registeredBy # "none")
    => /\ isRemote <=> registeredBy = "registerToolsRemote"
       /\ AsSet(enabledTools) \cup AsSet(disabledTools)
            \subseteq Ranges(AvailableTools(registeredBy = "registerToolsRemote"))
       /\ isRemote => ~GCP_STDIO /\ gcpInfo

\* C28, its cases: a list validated against the remote catalog and registered
\* by registerToolsRemote
C28_Witness ==
  /\ toolFilter.state = "ready"
  /\ isRemote
  /\ registeredBy = "registerToolsRemote"
  /\ enabledTools = Arr(<< <<"list_services">> >>)
  /\ registered = { <<"list_services">> }

---------------------------------------------------------------------------
(* Properties of create_project                                            *)

\* a create_project call whose arguments passed the check has finished
CreateProjectDone ==
  /\ toolPc = "done"
  /\ toolCall.name = <<"create_project">>
  /\ ToolValidate(toolCall).kind = "await"

CreateProjectError == << "Error creating GCP project or attaching billing: " >>

\* C29: whenever the backend call of create_project succeeds the handler
\* returns the success payload with the id of the new project; the 'Error
\* creating GCP project' payload is returned only when the backend call
\* failed, and then carries the message of that failure.
C29_CreateProjectOutcome ==
  CreateProjectDone
    => /\ toolResult.kind = "payload"
       /\ \/ Contains(toolResult.text, << "Successfully created GCP project with ID \"" >>)
          \/ \E message \in BackendErrors :
               toolResult.text = CreateProjectError \o << message >>

\* What holds instead: every outcome of the backend call ends in the error
\* payload; after a success the message is that of the ReferenceError
C29_CreateProjectAlwaysError ==
  CreateProjectDone
    => /\ toolResult.kind = "payload"
       /\ \E message \in BackendErrors \cup { "newProjectId is not defined" } :
            toolResult.text = CreateProjectError \o << message >>

---------------------------------------------------------------------------
(* Properties of the remote tools                                          *)

\* C30: in remote mode every backend call of every registered tool, whatever
\* the caller supplies, is addressed to the server's own project,
\* currentProject; no remote tool lets the caller name another project.
C30_RemoteCallsTargetOwnProject ==
  (toolCall.remote /\ backendTarget.called)
    => backendTarget.project = JsString(CurrentProject)

\* C30 holds of every remote tool but get_service_log, which addresses the
\* project its caller names
C30_ExceptServiceLog ==
  (toolCall.remote /\ backendTarget.called)
    => \/ backendTarget.project = JsString(CurrentProject)
       \/ /\ toolCall.name = <<"get_service_log">>
          /\ backendTarget.project = toolCall.project

=============================================================================
